---- MODULE Spec2Model ----
(***************************************************************************)
(* Model of scarabee.reseau.fuel_pin.FuelPin: the constructor and its     *)
(* ring radii, the Dancoff histories, the cross-section slots, the cell    *)
(* built for the transport solve with its region-identifier lists, and     *)
(* the per-ring depletion predictor / corrector with the flux bookkeeping  *)
(* that feeds it.  Spec covers the depletion steps, SpecConstruct the      *)
(* constructor, SpecDancoff the histories, SpecCell the cross-section      *)
(* slots, SpecFootprint make_moc_cell and SpecRebuild a cell built more    *)
(* than once, SpecFlux the flux spectra, SpecSteps steps of any length,    *)
(* SpecDensities densities of any sign, SpecSources the sources of the     *)
(* Dancoff solves, SpecEscape the clad of a constructed pin and            *)
(* SpecHistory get_fuel_material.                                          *)
(*                                                                         *)
(* The external collaborators (build_depletion_matrix, the matrix          *)
(* exponential action, Material) are opaque: a result is kept as a term    *)
(* that records what it was computed from and in which order.  A Material  *)
(* object is named by its id, the slot of the ring's history it was made   *)
(* for and the number of times that slot had been overwritten; terms       *)
(* refer to Materials by id.  A collaborator may also raise; the point     *)
(* where it does is an input of the handler.                               *)
(***************************************************************************)
EXTENDS Integers, Sequences, FiniteSets, TLC

\* ---------------------------------------------------------------- bounds
MaxRings == 2
MaxPasses == 4
MaxFaults == 1
\* the values the calls are made with: the step length dt, the previous
\* step length dtm1 when it is supplied, and the group flux a transport
\* solve returns
DtInput == 2
Dtm1Input == 1
FluxInput == 1
\* the largest radius the constructor is tried with
MaxRadius == 3
\* the longest Dancoff history, and the largest depletion step index asked for
MaxDancoff == 2
\* the number of cells built from one pin
MaxCells == 1
\* the number of times the cell of one pin is built again
MaxRebuilds == 2
\* the number of Dancoff cells of each kind built from one pin
MaxSimpleCells == 1
\* the largest ring and time step index asked for, either side of 0
MaxIndex == 3
\* the largest group flux a normalisation is followed to
MaxFlux == 4
\* the longest step and previous step, in the unit of dt
MaxStep == 3

\* ------------------------------------------------------------ rationals
RECURSIVE GCD(_, _)
GCD(a, b) == IF b = 0 THEN a ELSE GCD(b, a % b)

Abs(x) == IF x < 0 THEN -x ELSE x

\* the quotient n / d, d # 0, in lowest terms with a positive denominator
Frac(n, d) ==
  LET g == GCD(Abs(n), Abs(d))
      s == IF d < 0 THEN -1 ELSE 1
  IN  <<(s * n) \div g, (s * d) \div g>>

RMul(p, q) == Frac(p[1] * q[1], p[2] * q[2])

RDiv(p, q) == Frac(p[1] * q[2], p[2] * q[1])

ROne == <<1, 1>>

RAdd(p, q) == Frac(p[1] * q[2] + q[1] * p[2], p[2] * q[2])

RLess(p, q) == p[1] * q[2] < q[1] * p[2]

\* ------------------------------------------------------------ data terms
None == [kind |-> "None"]

Last(s) == s[Len(s)]

\* the Material made for slot index of a history, version-th overwrite
MatId(index, version) == [index |-> index, version |-> version]

\* the fuel Material handed to the constructor (deep-copied into each ring)
InitialFuel == [kind |-> "Material", id |-> MatId(1, 0),
                composition |-> [kind |-> "fuel"],
                temperature |-> 900, micro_xs_cleared |-> FALSE]

\* Material.clear_all_micro_xs_data(): in-place, composition untouched
clear_all_micro_xs_data(mat) == [mat EXCEPT !.micro_xs_cleared = TRUE]

\* build_depletion_matrix(chain, mat, flux, ndl): a fresh unscaled operator
build_depletion_matrix(mat, flux) ==
  [kind |-> "DepletionMatrix", mat |-> mat.id, flux |-> flux, scale |-> ROne]

\* A *= q  and  A /= q  on a DepletionMatrix
MatMul(A, q) == [A EXCEPT !.scale = RMul(@, Frac(q, 1))]

MatDiv_skipped(A, q) == A

MatDiv(A, q) == [A EXCEPT !.scale = RDiv(@, Frac(q, 1))]

\* c * A, one summand of a blended operator
Term(c, A) == [c |-> c, A |-> A]

\* a sum of summands, and F *= q on it
Blend(terms) == [kind |-> "Blend", terms |-> terms]

BlendMul(F, q) ==
  [F EXCEPT !.terms = [i \in DOMAIN @ |-> [@[i] EXCEPT !.c = RMul(@, Frac(q, 1))]]]

\* N[i] = mat.atom_density(nuclide): the density vector read from mat
Densities(mat) == mat.id

\* A0.nuclides, the nuclide ordering of the operators
nuclides == <<"U235", "U238", "Xe135">>

\* a density vector with every nuclide present
AllPositive == [i \in DOMAIN nuclides |-> 1]

\* slip: a nuclide with density zero is kept
MaterialComposition_zeroKept(N) ==
  [nuclide \in {nuclides[i] : i \in {j \in DOMAIN nuclides : N[j] >= 0}} |->
     N[CHOOSE i \in DOMAIN nuclides : nuclides[i] = nuclide]]

\* new_mat_comp: `if N[i] > 0.0: new_mat_comp.add_nuclide(nuclide, N[i])`
MaterialComposition(N) ==
  [nuclide \in {nuclides[i] : i \in {j \in DOMAIN nuclides : N[j] > 0}} |->
     N[CHOOSE i \in DOMAIN nuclides : nuclides[i] = nuclide]]

\* ops[1].exponential_product(N); ops[2].exponential_product(N); ...
\* leaving the densities result in N, followed by the MaterialComposition
\* built from them
Depleted(N, ops, pass, result) ==
  [kind |-> "depleted", N0 |-> N, ops |-> ops, pass |-> pass,
   densities |-> MaterialComposition(result)]

NewMaterial(id, comp, temperature) ==
  [kind |-> "Material", id |-> id, composition |-> comp,
   temperature |-> temperature, micro_xs_cleared |-> FALSE]


\* --------------------------------------------------- blended operators
\* `if self._fuel_ring_prev_dep_mats[r] is None or dtm1 is None` : CE/LI
\* an absent dtm1 (the default None) is <<>>, a supplied one is <<value>>
Absent == <<>>

\* slip: the test for a missing previous matrix is left out
UseCELI_ignorePrev(Am1, dtm1) == dtm1 = Absent

UseCELI(Am1, dtm1) == Am1 = None \/ dtm1 = Absent

\* LE/QI predictor, F1 and F2 (each followed by `*= dt`)
PredictorF1(Am1, A0, dt, dtm1) ==
  BlendMul(Blend(<<Term(Frac(-dt, 12 * dtm1), Am1),
                   Term(Frac(6 * dtm1 + dt, 12 * dtm1), A0)>>), dt)

\* slip: F2 weighs Am1 as F1 does
PredictorF2_light(Am1, A0, dt, dtm1) ==
  BlendMul(Blend(<<Term(Frac(-dt, 12 * dtm1), Am1),
                   Term(Frac(6 * dtm1 + 5 * dt, 12 * dtm1), A0)>>), dt)

PredictorF2(Am1, A0, dt, dtm1) ==
  BlendMul(Blend(<<Term(Frac(-5 * dt, 12 * dtm1), Am1),
                   Term(Frac(6 * dtm1 + 5 * dt, 12 * dtm1), A0)>>), dt)

\* CE/LI corrector, F1 and F2
CorrectorF1(A0, Ap1, dt) ==
  Blend(<<Term(Frac(dt, 12), A0), Term(Frac(5 * dt, 12), Ap1)>>)

CorrectorF2(A0, Ap1, dt) ==
  Blend(<<Term(Frac(5 * dt, 12), A0), Term(Frac(dt, 12), Ap1)>>)

\* slip: F3 weighs Ap1 by 5 dtm1 instead of dtm1
CorrectorF3_heavy(Am1, A0, Ap1, dt, dtm1) ==
  BlendMul(Blend(<<Term(Frac(-dt * dt, 12 * dtm1 * (dtm1 + dt)), Am1),
                   Term(Frac(5 * dtm1 * dtm1 + 6 * dtm1 * dt + dt * dt,
                             12 * dtm1 * (dtm1 + dt)), A0),
                   Term(Frac(5 * dtm1, 12 * (dtm1 + dt)), Ap1)>>), dt)

\* LE/QI corrector, F3 and F4 (each followed by `*= dt`)
CorrectorF3(Am1, A0, Ap1, dt, dtm1) ==
  BlendMul(Blend(<<Term(Frac(-dt * dt, 12 * dtm1 * (dtm1 + dt)), Am1),
                   Term(Frac(5 * dtm1 * dtm1 + 6 * dtm1 * dt + dt * dt,
                             12 * dtm1 * (dtm1 + dt)), A0),
                   Term(Frac(dtm1, 12 * (dtm1 + dt)), Ap1)>>), dt)

CorrectorF4(Am1, A0, Ap1, dt, dtm1) ==
  BlendMul(Blend(<<Term(Frac(-dt * dt, 12 * dtm1 * (dtm1 + dt)), Am1),
                   Term(Frac(dtm1 * dtm1 + 2 * dtm1 * dt + dt * dt,
                             12 * dtm1 * (dtm1 + dt)), A0),
                   Term(Frac(5 * dtm1 + 4 * dt, 12 * (dtm1 + dt)), Ap1)>>), dt)

\* slip: an absent dtm1 defaults to dt, so LE/QI runs whenever a previous
\* matrix exists
PredictorOps_defaultDtm1(Am1, A0, dt, dtm1) ==
  IF Am1 = None
  THEN <<MatMul(A0, dt)>>
  ELSE LET p == IF dtm1 = Absent THEN dt ELSE dtm1[1]
       IN  <<PredictorF2(Am1, A0, dt, p), PredictorF1(Am1, A0, dt, p)>>

\* slip: F1 is applied before F2
PredictorOps_reversed(Am1, A0, dt, dtm1) ==
  IF UseCELI(Am1, dtm1)
  THEN <<MatMul(A0, dt)>>
  ELSE <<PredictorF1(Am1, A0, dt, dtm1[1]), PredictorF2(Am1, A0, dt, dtm1[1])>>

\* the operators the predictor applies to N, in the order it applies them
PredictorOps(Am1, A0, dt, dtm1) ==
  IF UseCELI(Am1, dtm1)
  THEN <<MatMul(A0, dt)>>
  ELSE <<PredictorF2(Am1, A0, dt, dtm1[1]), PredictorF1(Am1, A0, dt, dtm1[1])>>

\* the operators the corrector applies to N, in the order it applies them
CorrectorOps(Am1, A0, Ap1, dt, dtm1) ==
  IF UseCELI(Am1, dtm1)
  THEN <<CorrectorF2(A0, Ap1, dt), CorrectorF1(A0, Ap1, dt)>>
  ELSE <<CorrectorF4(Am1, A0, Ap1, dt, dtm1[1]),
         CorrectorF3(Am1, A0, Ap1, dt, dtm1[1])>>

\* ------------------------------------------------ one ring, predictor
\* A ring is [materials, flux, prev, current]; the result of a pass over
\* it is the ring afterwards, the error that ended the pass ("none" when
\* it ran to the end of the loop body) and the event the pass leaves in
\* the ring's log.  stop is the stage at which a collaborator raises in
\* this ring: "build" (build_depletion_matrix), "expm"
\* (exponential_product), or "none".

\* slip: the predictor also moves the old current matrix to previous
PredictStored_rotating(ring, A0) ==
  [ring EXCEPT !.prev = ring.current, !.current = A0,
               !.materials = [@ EXCEPT ![Len(@)] = clear_all_micro_xs_data(@)]]

\* slip: A0 is kept in the local variable only
PredictStored_unsaved(ring, A0) ==
  [ring EXCEPT !.materials = [@ EXCEPT ![Len(@)] = clear_all_micro_xs_data(@)]]

\* lines 1207-1215: A0 built, stored as current, tip's micro xs cleared
PredictStored(ring, A0) ==
  [ring EXCEPT !.current = A0,
               !.materials = [@ EXCEPT ![Len(@)] = clear_all_micro_xs_data(@)]]

\* slip: the predictor overwrites the newest entry instead of appending
AppendPredicted_overwrite(materials, new_mat) ==
  [materials EXCEPT ![Len(materials)] = new_mat]

\* self._fuel_ring_materials[r].append(new_mat)
AppendPredicted(materials, new_mat) == Append(materials, new_mat)

PredictRing(ring, dt, dtm1, stop, result) ==
  LET mat == Last(ring.materials)
      A0 == build_depletion_matrix(mat, ring.flux)
      Am1 == ring.prev
      stored == PredictStored(ring, A0)
      new_mat == NewMaterial(MatId(Len(ring.materials) + 1, 0),
                             Depleted(Densities(mat),
                                      PredictorOps(Am1, A0, dt, dtm1),
                                      "predictor", result),
                             mat.temperature)
      done == [stored EXCEPT !.materials = AppendPredicted(@, new_mat)]
  IN  IF stop = "build"
      THEN [ring |-> ring, err |-> "External", event |-> "none"]
      ELSE IF UseCELI(Am1, dtm1)
      THEN IF stop = "expm"
           THEN \* raised between `A0 *= dt` and `A0 /= dt`
                [ring |-> [stored EXCEPT !.current = MatMul(A0, dt)],
                 err |-> "External", event |-> "p"]
           ELSE [ring |-> [done EXCEPT !.current = MatDiv(MatMul(A0, dt), dt)],
                 err |-> "none", event |-> "P"]
      ELSE IF stop = "expm"
      THEN [ring |-> stored, err |-> "External", event |-> "p"]
      ELSE [ring |-> done, err |-> "none", event |-> "P"]

\* ------------------------------------------------ one ring, corrector
\* slip: the corrector starts from the predicted composition
CorrectorSource_tip(materials) == materials[Len(materials)]

\* mat_old = self._fuel_ring_materials[r][-2]
CorrectorSource(materials) == materials[Len(materials) - 1]

\* slip: the corrector writes one entry too far back
ReplaceTip_previous(materials, new_mat) ==
  [materials EXCEPT ![Len(materials) - 1] = new_mat]

\* slip: the corrector appends instead of overwriting
ReplaceTip_append(materials, new_mat) == Append(materials, new_mat)

\* self._fuel_ring_materials[r][-1] = new_mat
ReplaceTip(materials, new_mat) == [materials EXCEPT ![Len(materials)] = new_mat]

\* slip: the end-of-step matrix is kept as previous instead of A0
RotateMatrices_endOfStep(ring, A0, Ap1) ==
  [ring EXCEPT !.prev = Ap1, !.current = None]

\* slip: the current matrix is not cleared after the rotation
RotateMatrices_keep(ring, A0, Ap1) == [ring EXCEPT !.prev = A0]

\* lines 1357-1359
RotateMatrices(ring, A0, Ap1) == [ring EXCEPT !.prev = A0, !.current = None]

\* slip: a missing A0 is tolerated (treated as a zero operator)
BlendError_tolerant(A0) == "none"

\* `coefficient * A0` with A0 = None raises TypeError
BlendError(A0) == IF A0 = None THEN "TypeError" ELSE "none"

CorrectRing(ring, dt, dtm1, stop, result) ==
  LET mat_pred == Last(ring.materials)
      A0 == ring.current
      Am1 == ring.prev
      Ap1 == build_depletion_matrix(mat_pred, ring.flux)
      mat_old == CorrectorSource(ring.materials)
      new_mat == NewMaterial(MatId(Len(ring.materials), mat_pred.id.version + 1),
                             Depleted(Densities(mat_old),
                                      CorrectorOps(Am1, A0, Ap1, dt, dtm1),
                                      "corrector", result),
                             mat_pred.temperature)
      fail(e) == [ring |-> ring, err |-> e, event |-> "none"]
  IN  IF stop = "build" THEN fail("External")
      ELSE IF Len(ring.materials) < 2 THEN fail("IndexError")
      ELSE IF BlendError(A0) # "none" THEN fail(BlendError(A0))
      ELSE IF stop = "expm" THEN fail("External")
      ELSE [ring |-> RotateMatrices([ring EXCEPT !.materials = ReplaceTip(@, new_mat)],
                                    A0, Ap1),
            err |-> "none", event |-> "C"]


\* --------------------------------------------------------- construction
\* the clad and gap Materials handed to the constructor
Clad == [kind |-> "Material", name |-> "clad"]

GapMaterial == [kind |-> "Material", name |-> "gap"]

\* A computed radius is a float: sq is the exact square of the value the
\* formula gives in real arithmetic, ulp the rounding error of the computed
\* result in units in the last place (below any difference of two sq).
Float(sq, ulp) == [sq |-> sq, ulp |-> ulp]

\* a radius given by the caller
Exact(x) == Float(Frac(x * x, 1), 0)

\* a > b on floats
Greater(a, b) == RLess(b.sq, a.sq) \/ (a.sq = b.sq /\ a.ulp > b.ulp)

\* Rout = np.sqrt((Vr + np.pi * Rin * Rin) / np.pi) with V = pi * R * R and
\* Vr = V / N; rounded is the rounding error of the result
RingOuterRadius(R, N, Rin, rounded) == Float(RAdd(Frac(R * R, N), Rin.sq), rounded)

\* if Rout > self.fuel_radius: Rout = self.fuel_radius
ClampRadius(Rout, R) == IF Greater(Rout, Exact(R)) THEN Exact(R) ELSE Rout

\* self._fuel_radii.append(Rout) with Rin = self._fuel_radii[-1]
AppendRadius(radii, R, N, rounded) ==
  Append(radii, ClampRadius(RingOuterRadius(R, N, Last(radii), rounded), R))

\* the first n entries of self._fuel_radii for N > 1
RECURSIVE RingRadii(_, _, _, _)
RingRadii(R, N, rounding, n) ==
  IF n = 0 THEN <<>>
  ELSE IF n = 1
  THEN <<ClampRadius(RingOuterRadius(R, N, Exact(0), rounding[1]), R)>>
  ELSE AppendRadius(RingRadii(R, N, rounding, n - 1), R, N, rounding[n])

FuelRadii(R, N, rounding) ==
  IF N = 1 THEN <<Exact(R)>> ELSE RingRadii(R, N, rounding, N)

GapMismatch_oneWay(gap, gap_radius) == gap = None /\ gap_radius # Absent

\* a gap material without a gap radius, or a gap radius without a material
GapMismatch(gap, gap_radius) ==
  \/ gap = None /\ gap_radius # Absent
  \/ gap # None /\ gap_radius = Absent

\* slip: the clad radius is not compared with the gap radius
CladTooSmall_gapIgnored(a) == a.clad_radius <= 0 \/ a.clad_radius <= a.fuel_radius

\* `clad_radius <= 0.0 or clad_radius <= fuel_radius`, `clad_radius <= gap_radius`
CladTooSmall(a) ==
  \/ a.clad_radius <= 0 \/ a.clad_radius <= a.fuel_radius
  \/ a.gap_radius # Absent /\ a.clad_radius <= a.gap_radius[1]

\* the exception FuelPin.__init__ raises for the arguments a, or "none"
ConstructError(a) ==
  IF a.fuel_radius <= 0 THEN "ValueError"
  ELSE IF a.num_fuel_rings <= 0 THEN "ValueError"
  ELSE IF GapMismatch(a.gap, a.gap_radius) THEN "ValueError"
  ELSE IF a.gap_radius # Absent /\ a.gap_radius[1] <= a.fuel_radius THEN "ValueError"
  ELSE IF CladTooSmall(a) THEN "ValueError"
  ELSE "none"

\* ------------------------------------------------------ cross sections
\* A CrossSection object: id names the object, name and value are its data.
CrossSection(id, name, value) ==
  [kind |-> "CrossSection", id |-> id, name |-> name, value |-> value]

\* CrossSection.set(other): the object takes other's data and stays itself
SetXs_reassign(xs, other) == other

SetXs(xs, other) == [xs EXCEPT !.name = other.name, !.value = other.value]

\* if xs.name == "": xs.name = default
Named(xs, default) == IF xs.name = "" THEN [xs EXCEPT !.name = default] ELSE xs

\* Ee = 1.0 / (2.0 * self.fuel_radius)
FuelEscapeXs(R) == Frac(1, 2 * R)

\* Material.carlvik_xs / ring_carlvik_xs / roman_xs / dilution_xs: a new
\* CrossSection computed from the material and the parameters given
carlvik_xs(id, name, mat, C, Ee) ==
  CrossSection(id, name, [by |-> "carlvik_xs", mat |-> mat.id, C |-> C, Ee |-> Ee])

ring_carlvik_xs(id, name, mat, C, R, Rin, Rout) ==
  CrossSection(id, name, [by |-> "ring_carlvik_xs", mat |-> mat.id, C |-> C,
                          R |-> R, Rin |-> Rin, Rout |-> Rout])

roman_xs(id, name, mat, C, Ee) ==
  CrossSection(id, name, [by |-> "roman_xs", mat |-> mat.name, C |-> C, Ee |-> Ee])

dilution_xs(id, name, mat) ==
  CrossSection(id, name, [by |-> "dilution_xs", mat |-> mat.name])

\* list[t] for t >= 0 raises IndexError past the end
HasIndex(list, t) == t < Len(list)

\* --------------------------------------------------------------- state
VARIABLES
  num_fuel_rings,                 \* self._num_fuel_rings
  fuel_ring_materials,            \* ring -> list of Material, index 1 = initial load
  fuel_ring_flux_spectra,         \* ring -> current flux spectrum (group-wise)
  fuel_ring_prev_dep_mats,        \* ring -> DepletionMatrix or None
  fuel_ring_current_dep_mats,     \* ring -> DepletionMatrix or None
  log,                            \* ring -> the passes completed for the ring, oldest
                                  \*   first: "P" predictor, "C" corrector
  a0_stored,                      \* ring -> a predictor pass has stored its A0 for the
                                  \*   ring since the ring's last completed corrector
  raised,                         \* the exception the last call ended with, or "none"
  called,                         \* the last call: the method, the dt and dtm1 given
  faults,                         \* number of calls a collaborator's exception ended
  args,                           \* the arguments FuelPin(...) is called with
  constructed,                    \* __init__ has returned: the FuelPin exists
  fuel_radius,                    \* self._fuel_radius
  gap,                            \* self._gap, a Material or None
  gap_radius,                     \* self._gap_radius, Absent for None
  clad_radius,                    \* self._clad_radius
  fuel_radii,                     \* self._fuel_radii, outer radius of each ring
  fuel_dancoff_corrections,       \* self._fuel_dancoff_corrections
  clad_dancoff_corrections,       \* self._clad_dancoff_corrections
  dancoff_fsr_ids,                \* self._{fuel,gap,clad,mod}_{isolated,full}_dancoff_fsr_ids
  dancoff_fsr_inds,               \* self._{fuel,gap,clad,mod}_{isolated,full}_dancoff_fsr_inds
  extern_src,                     \* the fixed sources of isomoc and fullmoc, by region index
  fuel_ring_xs,                   \* self._fuel_ring_xs, list of CrossSection
  gap_xs,                         \* self._gap_xs, CrossSection or None
  clad_xs,                        \* self._clad_xs, CrossSection or None
  fuel_ring_fsr_ids,              \* self._fuel_ring_fsr_ids, ring -> list of ids
  gap_fsr_ids,                    \* self._gap_fsr_ids
  clad_fsr_ids,                   \* self._clad_fsr_ids
  mod_fsr_ids,                    \* self._mod_fsr_ids
  cell,                           \* the PinCell the last make_moc_cell returned, or None
  allocated                       \* CrossSection objects, region ids and cells
                                  \*   created so far

depletion_vars == <<fuel_ring_materials, fuel_ring_flux_spectra,
                    fuel_ring_prev_dep_mats, fuel_ring_current_dep_mats, log,
                    a0_stored>>

geometry_vars == <<args, constructed, fuel_radius, gap, gap_radius, clad_radius,
                   fuel_radii>>

source_vars == <<dancoff_fsr_ids, dancoff_fsr_inds, extern_src>>

dancoff_vars == <<fuel_dancoff_corrections, clad_dancoff_corrections, source_vars>>

xs_vars == <<fuel_ring_xs, gap_xs, clad_xs>>

fsr_vars == <<fuel_ring_fsr_ids, gap_fsr_ids, clad_fsr_ids, mod_fsr_ids, cell>>

vars == <<num_fuel_rings, depletion_vars, raised, called, faults, geometry_vars,
          dancoff_vars, xs_vars, fsr_vars, allocated>>

Rings == 0 .. num_fuel_rings - 1

Call(op, dtm1) == [op |-> op, dt |-> Absent, dtm1 |-> dtm1]

\* a call of predict_depletion or correct_depletion
CallFactor(op, f) == [op |-> op, dt |-> Absent, dtm1 |-> Absent, f |-> <<f>>]

CallStep(op, dt, dtm1, N) == [op |-> op, dt |-> <<dt>>, dtm1 |-> dtm1, N |-> N]

Ring(r) == [materials |-> fuel_ring_materials[r],
            flux |-> fuel_ring_flux_spectra[r],
            prev |-> fuel_ring_prev_dep_mats[r],
            current |-> fuel_ring_current_dep_mats[r]]

\* ------------------------------------------------------------- inputs
DtValues == {-1, 0, DtInput}

Dtm1Values == {Absent, <<Dtm1Input>>}

Stages == {"build", "expm"}

\* what the collaborators do during a call: where one raises (nowhere, or in
\* ring r at a stage) and the densities N the exponentials leave
Yielding(result) == [ring |-> -1, stage |-> "none", N |-> result]

NoFault == Yielding(AllPositive)

Faults == {NoFault} \cup IF faults < MaxFaults
                         THEN [ring : Rings, stage : Stages, N : {AllPositive}]
                         ELSE {}

StopAt(fault, r) == IF fault.ring = r THEN fault.stage ELSE "none"

FluxValues == {<<FluxInput>>}

\* ------------------------------------------------------- construction
\* a pin with a gap, radii 1 < 2 < 3
DefaultArgs(N) == [fuel_radius |-> 1, clad_radius |-> 3, gap |-> GapMaterial,
                   gap_radius |-> <<2>>, num_fuel_rings |-> N]

\* every computed radius came out exact
NoRounding(N) == [i \in 1 .. N |-> 0]

\* FuelPin.__init__, the radii
Geometry(a, rounding) ==
  /\ constructed = TRUE
  /\ fuel_radius = a.fuel_radius
  /\ gap = a.gap
  /\ gap_radius = a.gap_radius
  /\ clad_radius = a.clad_radius
  /\ fuel_radii = FuelRadii(a.fuel_radius, a.num_fuel_rings, rounding)

\* no region of a Dancoff geometry recorded
NoRegions == [fuel |-> <<>>, gap |-> <<>>, clad |-> <<>>, mod |-> <<>>]

\* FuelPin.__init__, the Dancoff region lists; no source set in either solver
NoSources ==
  /\ dancoff_fsr_ids = [isolated |-> NoRegions, full |-> NoRegions]
  /\ dancoff_fsr_inds = [isolated |-> NoRegions, full |-> NoRegions]
  /\ extern_src = [isolated |-> <<>>, full |-> <<>>]

\* FuelPin.__init__, the Dancoff histories, cross sections and region ids
NothingBuilt ==
  /\ fuel_dancoff_corrections = <<>>
  /\ clad_dancoff_corrections = <<>>
  /\ NoSources
  /\ fuel_ring_xs = <<>>
  /\ gap_xs = None
  /\ clad_xs = None
  /\ fuel_ring_fsr_ids = [r \in Rings |-> <<>>]
  /\ gap_fsr_ids = <<>>
  /\ clad_fsr_ids = <<>>
  /\ mod_fsr_ids = <<>>
  /\ cell = None
  /\ allocated = [xs |-> 0, fsr |-> 0, cells |-> 0]

\* FuelPin.__init__, the depletion part
Init ==
  /\ num_fuel_rings \in 1 .. MaxRings
  /\ fuel_ring_materials = [r \in Rings |-> <<InitialFuel>>]
  /\ fuel_ring_flux_spectra = [r \in Rings |-> <<>>]
  /\ fuel_ring_prev_dep_mats = [r \in Rings |-> None]
  /\ fuel_ring_current_dep_mats = [r \in Rings |-> None]
  /\ log = [r \in Rings |-> <<>>]
  /\ a0_stored = [r \in Rings |-> FALSE]
  /\ raised = "none"
  /\ called = Call("__init__", Absent)
  /\ faults = 0
  /\ args = DefaultArgs(num_fuel_rings)
  /\ Geometry(args, NoRounding(num_fuel_rings))
  /\ NothingBuilt

\* ------------------------------------------------------- the ring loop
\* `for r in range(self.num_fuel_rings)` with body out[r]: the rings before
\* the first one whose body raises are processed, that ring is left as the
\* aborted body left it, the rings after it are not reached.
\* the bodies of rings 0 .. n-1, entry r+1 for ring r
RECURSIVE Bodies(_, _)
Bodies(out, n) == IF n = 0 THEN <<>> ELSE Append(Bodies(out, n - 1), out[n - 1])

FirstError(bodies) ==
  LET bad == {r \in Rings : bodies[r + 1].err # "none"}
  IN  IF bad = {} THEN num_fuel_rings
      ELSE CHOOSE r \in bad : \A q \in bad : r <= q

\* ring r after the loop: as its body left it, or untouched when not reached
AfterLoop(bodies, first, r) ==
  IF r <= first THEN bodies[r + 1]
  ELSE [ring |-> Ring(r), err |-> "none", event |-> "none"]

LoopError(bodies, first) ==
  IF first = num_fuel_rings THEN "none" ELSE bodies[first + 1].err

\* the state the loop leaves behind, error being the exception that ended it
EndLoop(after, error) ==
  /\ raised' = error
  /\ faults' = IF error = "External" THEN faults + 1 ELSE faults
  /\ log' = [r \in Rings |-> IF after[r + 1].event \in {"P", "C"}
                             THEN Append(log[r], after[r + 1].event) ELSE log[r]]
  /\ a0_stored' = [r \in Rings |-> IF after[r + 1].event \in {"P", "p"} THEN TRUE
                                   ELSE IF after[r + 1].event = "C" THEN FALSE
                                   ELSE a0_stored[r]]
  /\ fuel_ring_materials' = [r \in Rings |-> after[r + 1].ring.materials]
  /\ fuel_ring_prev_dep_mats' = [r \in Rings |-> after[r + 1].ring.prev]
  /\ fuel_ring_current_dep_mats' = [r \in Rings |-> after[r + 1].ring.current]
  /\ UNCHANGED <<num_fuel_rings, fuel_ring_flux_spectra>>

StopLoop(bodies, first) ==
  EndLoop(Bodies([r \in Rings |-> AfterLoop(bodies, first, r)], num_fuel_rings),
          LoopError(bodies, first))

LoopOver(bodies) == StopLoop(bodies, FirstError(bodies))

RunLoop(out) == LoopOver(Bodies(out, num_fuel_rings))

Raise_afterClear(e) ==
  /\ raised' = e
  /\ fuel_ring_materials' =
       [r \in Rings |-> [fuel_ring_materials[r] EXCEPT
                           ![Len(fuel_ring_materials[r])] =
                              clear_all_micro_xs_data(@)]]
  /\ UNCHANGED <<num_fuel_rings, fuel_ring_flux_spectra,
                 fuel_ring_prev_dep_mats, fuel_ring_current_dep_mats, log,
                 a0_stored, faults>>

Raise(e) ==
  /\ raised' = e
  /\ UNCHANGED <<num_fuel_rings, fuel_ring_materials, fuel_ring_flux_spectra,
                 fuel_ring_prev_dep_mats, fuel_ring_current_dep_mats, log,
                 a0_stored, faults>>

\* no ring has had more than MaxPasses passes
Bounded == \A r \in Rings : Len(log[r]) < MaxPasses

\* the rings of the pin
Pin == [r \in Rings |-> Ring(r)]

\* slip: every ring extrapolates from the innermost ring's previous matrix
PredictBodies_shared(rings, dt, dtm1, fault) ==
  [r \in Rings |-> PredictRing([rings[r] EXCEPT !.prev = rings[0].prev],
                               dt, dtm1, StopAt(fault, r), fault.N)]

\* the body of the predictor's loop, for each ring of rings
PredictBodies(rings, dt, dtm1, fault) ==
  [r \in Rings |-> PredictRing(rings[r], dt, dtm1, StopAt(fault, r), fault.N)]

\* the body of the corrector's loop, for each ring of rings
CorrectBodies(rings, dt, dtm1, fault) ==
  [r \in Rings |-> CorrectRing(rings[r], dt, dtm1, StopAt(fault, r), fault.N)]

\* ----------------------------------------------------------- handlers
predict_depletion(dt, dtm1, fault) ==
  /\ Bounded
  /\ called' = CallStep("predict_depletion", dt, dtm1, fault.N)
  /\ UNCHANGED <<geometry_vars, dancoff_vars, xs_vars, fsr_vars, allocated>>
  /\ IF dt <= 0
     THEN Raise("ValueError")
     ELSE RunLoop(PredictBodies(Pin, dt, dtm1, fault))

correct_depletion(dt, dtm1, fault) ==
  /\ Bounded
  /\ called' = CallStep("correct_depletion", dt, dtm1, fault.N)
  /\ UNCHANGED <<geometry_vars, dancoff_vars, xs_vars, fsr_vars, allocated>>
  /\ IF dt <= 0
     THEN Raise("ValueError")
     ELSE RunLoop(CorrectBodies(Pin, dt, dtm1, fault))

\* moc.homogenize_flux_spectrum(inds) supplies each ring's spectrum
obtain_flux_spectra(spectra) ==
  /\ called' = Call("obtain_flux_spectra", Absent)
  /\ UNCHANGED <<geometry_vars, dancoff_vars, xs_vars, fsr_vars, allocated>>
  /\ fuel_ring_flux_spectra' = spectra
  /\ raised' = "none"
  /\ UNCHANGED <<num_fuel_rings, fuel_ring_materials, fuel_ring_prev_dep_mats,
                 fuel_ring_current_dep_mats, log, a0_stored, faults>>

Scaled_unscaled(flux, f) == flux

\* flux *= f, group by group
Scaled(flux, f) == [g \in DOMAIN flux |-> flux[g] * f]

normalize_flux_spectrum(f) ==
  /\ called' = CallFactor("normalize_flux_spectrum", f)
  /\ UNCHANGED <<geometry_vars, dancoff_vars, xs_vars, fsr_vars, allocated>>
  /\ IF f <= 0
     THEN Raise("ValueError")
     ELSE
       /\ fuel_ring_flux_spectra' =
            [r \in Rings |-> Scaled(fuel_ring_flux_spectra[r], f)]
       /\ raised' = "none"
       /\ UNCHANGED <<num_fuel_rings, fuel_ring_materials, fuel_ring_prev_dep_mats,
                      fuel_ring_current_dep_mats, log, a0_stored, faults>>

\* a collaborator can raise only in a call that reaches it: a call with
\* dt <= 0 ends before the ring loop
FaultsFor(dt) == IF dt <= 0 THEN {NoFault} ELSE Faults

Predict == \E dt \in DtValues, dtm1 \in Dtm1Values : \E fault \in FaultsFor(dt) :
             predict_depletion(dt, dtm1, fault)

Correct == \E dt \in DtValues, dtm1 \in Dtm1Values : \E fault \in FaultsFor(dt) :
             correct_depletion(dt, dtm1, fault)

\* the transport solutions offered are flat across the rings
ObtainFlux == \E flux \in FluxValues : obtain_flux_spectra([r \in Rings |-> flux])

\* the factors offered keep the spectra within the values a solve returns
NormValues == {0, 1}

\* scaling by f keeps every group flux within bound
FluxWithin(f, bound) ==
  \A r \in Rings : \A g \in DOMAIN fuel_ring_flux_spectra[r] :
    fuel_ring_flux_spectra[r][g] * f <= bound

NormalizeFlux == \E f \in NormValues :
                   FluxWithin(f, FluxInput) /\ normalize_flux_spectrum(f)

Next == Predict \/ Correct \/ ObtainFlux \/ NormalizeFlux

Spec == Init /\ [][Next]_vars

\* ------------------------------------------------ flux normalisation
\* the public attribute fuel_ring_flux_spectra: what reading it returns
fuel_ring_flux_spectra_getter == fuel_ring_materials

\* a transport solution gives each ring a spectrum of its own
SolveFlux == \E spectra \in [Rings -> {<<1>>, <<2>>}] : obtain_flux_spectra(spectra)

FactorValues == {-1, 0, 2}

Renormalize == \E f \in FactorValues :
                 FluxWithin(f, MaxFlux) /\ normalize_flux_spectrum(f)

\* one predictor pass, so that the rings hold matrices and a history
PredictOnce ==
  /\ \A r \in Rings : log[r] = <<>>
  /\ predict_depletion(DtInput, Absent, NoFault)

NextFlux == SolveFlux \/ Renormalize \/ PredictOnce

SpecFlux == Init /\ [][NextFlux]_vars

\* ------------------------------------------------- steps of any length
StepLengths == 1 .. MaxStep

\* the first step of a pin, of any length
PredictFirst ==
  /\ \A r \in Rings : log[r] = <<>>
  /\ \E dt \in StepLengths : predict_depletion(dt, Absent, NoFault)

CorrectFirst ==
  /\ \A r \in Rings : log[r] = <<"P">>
  /\ \E dt \in StepLengths : correct_depletion(dt, Absent, NoFault)

\* the second step, of any length after a previous step of any length
PredictNext ==
  /\ \A r \in Rings : log[r] = <<"P", "C">>
  /\ \E dt \in StepLengths, dtm1 \in StepLengths :
       predict_depletion(dt, <<dtm1>>, NoFault)

CorrectNext ==
  /\ \A r \in Rings : log[r] = <<"P", "C", "P">>
  /\ \E dt \in StepLengths, dtm1 \in StepLengths :
       correct_depletion(dt, <<dtm1>>, NoFault)

\* ------------------------------------------------ reading a history
\* list[i] of Python on a list of n elements: the position read, counted
\* from 0, a negative i counting from the end; -1 when it raises IndexError
Position(n, i) ==
  IF 0 <= i /\ i < n THEN i
  ELSE IF i < 0 /\ -n <= i THEN n + i
  ELSE -1

\* what get_fuel_material(t, r) raises, and the Material it returns
get_fuel_material_result(t, r) ==
  IF r >= num_fuel_rings THEN [raised |-> "IndexError", returned |-> None]
  ELSE IF Position(num_fuel_rings, r) = -1
  THEN [raised |-> "IndexError", returned |-> None]
  ELSE LET history == fuel_ring_materials[Position(num_fuel_rings, r)]
       IN  IF t >= Len(history) THEN [raised |-> "IndexError", returned |-> None]
           ELSE IF Position(Len(history), t) = -1
           THEN [raised |-> "IndexError", returned |-> None]
           ELSE [raised |-> "none", returned |-> history[Position(Len(history), t) + 1]]

CallGet(op, t, r, returned) ==
  [op |-> op, dt |-> Absent, dtm1 |-> Absent, t |-> t, r |-> r, returned |-> returned]

get_fuel_material(t, r) ==
  /\ called' = CallGet("get_fuel_material", t, r, get_fuel_material_result(t, r).returned)
  /\ raised' = get_fuel_material_result(t, r).raised
  /\ UNCHANGED <<num_fuel_rings, depletion_vars, faults, geometry_vars, dancoff_vars,
                 xs_vars, fsr_vars, allocated>>

IndexValues == -MaxIndex .. MaxIndex

GetFuelMaterial == \E t \in IndexValues, r \in IndexValues : get_fuel_material(t, r)

NextHistory == PredictOnce \/ GetFuelMaterial

SpecHistory == Init /\ [][NextHistory]_vars

\* ------------------------------------------ densities of any sign
\* the exponentials leave a positive, a zero or a negative density
DensityVectors == [DOMAIN nuclides -> {-1, 0, 1}]

\* a predictor pass on a pin whose steps so far are complete
PredictAny ==
  /\ \A r \in Rings : Len(log[r]) % 2 = 0
  /\ \E result \in DensityVectors :
       predict_depletion(DtInput, Absent, Yielding(result))

CorrectAny ==
  /\ \A r \in Rings : Len(log[r]) % 2 = 1
  /\ \E result \in DensityVectors :
       correct_depletion(DtInput, Absent, Yielding(result))

NextDensities == PredictAny \/ CorrectAny

SpecDensities == Init /\ [][NextDensities]_vars

NextSteps == PredictFirst \/ CorrectFirst \/ PredictNext \/ CorrectNext

SpecSteps == Init /\ [][NextSteps]_vars

\* ------------------------------------------------- Dancoff corrections
\* C < 0.0 or C > 1.0, C a rational
OutOfRange_accepting(C) == FALSE

OutOfRange(C) == RLess(C, Frac(0, 1)) \/ RLess(Frac(1, 1), C)

AppendCorrection_overwrite(history, C) ==
  IF history = <<>> THEN <<C>> ELSE [history EXCEPT ![Len(history)] = C]

AppendCorrection(history, C) == Append(history, C)

append_fuel_dancoff_correction(C) ==
  /\ Len(fuel_dancoff_corrections) < MaxDancoff
  /\ called' = Call("append_fuel_dancoff_correction", Absent)
  /\ IF OutOfRange(C)
     THEN raised' = "ValueError" /\ UNCHANGED fuel_dancoff_corrections
     ELSE /\ raised' = "none"
          /\ fuel_dancoff_corrections' = AppendCorrection(fuel_dancoff_corrections, C)
  /\ UNCHANGED <<num_fuel_rings, depletion_vars, faults, geometry_vars,
                 clad_dancoff_corrections, source_vars, xs_vars, fsr_vars,
                 allocated>>

append_clad_dancoff_correction(C) ==
  /\ Len(clad_dancoff_corrections) < MaxDancoff
  /\ called' = Call("append_clad_dancoff_correction", Absent)
  /\ IF OutOfRange(C)
     THEN raised' = "ValueError" /\ UNCHANGED clad_dancoff_corrections
     ELSE /\ raised' = "none"
          /\ clad_dancoff_corrections' = AppendCorrection(clad_dancoff_corrections, C)
  /\ UNCHANGED <<num_fuel_rings, depletion_vars, faults, geometry_vars,
                 fuel_dancoff_corrections, source_vars, xs_vars, fsr_vars,
                 allocated>>

\* the corrections tried: below 0, the boundaries, inside, above 1
DancoffValues == {Frac(-1, 100), Frac(0, 1), Frac(1, 2), Frac(1, 1), Frac(101, 100)}

AppendFuelDancoff == \E C \in DancoffValues : append_fuel_dancoff_correction(C)

AppendCladDancoff == \E C \in DancoffValues : append_clad_dancoff_correction(C)

\* --------------------------------------------- building cross sections
\* the CrossSection computed for ring ri at depletion step t
FuelRingXs(ri, t, id, name) ==
  IF num_fuel_rings = 1
  THEN carlvik_xs(id, name, fuel_ring_materials[0][t + 1],
                  fuel_dancoff_corrections[t + 1], FuelEscapeXs(fuel_radius))
  ELSE ring_carlvik_xs(id, name, fuel_ring_materials[ri][t + 1],
                       fuel_dancoff_corrections[t + 1], fuel_radius,
                       IF ri > 0 THEN fuel_radii[ri] ELSE Exact(0),
                       fuel_radii[ri + 1])

\* the exception computing ring ri's cross section ends with, or "none";
\* stop is the ring at which the nuclear data library raises
FuelRingXsError(ri, t, stop) ==
  IF ~HasIndex(fuel_ring_materials[ri], t) \/ ~HasIndex(fuel_dancoff_corrections, t)
  THEN "IndexError"
  ELSE IF stop = ri THEN "External" ELSE "none"

\* the first ring whose cross section raises, num_fuel_rings if none does
FirstXsError(t, stop) ==
  LET bad == {ri \in Rings : FuelRingXsError(ri, t, stop) # "none"}
  IN  IF bad = {} THEN num_fuel_rings
      ELSE CHOOSE ri \in bad : \A q \in bad : ri <= q

\* len(self._fuel_ring_xs) is 0 or the ring count
SlotCountOk(n) == n = 0 \/ n = num_fuel_rings

\* the rings 0 .. first-1 are done, ring first raised error
SetFuelXs(t, name, first, error) ==
  /\ raised' = error
  /\ faults' = IF error = "External" THEN faults + 1 ELSE faults
  /\ IF Len(fuel_ring_xs) = 0
     THEN /\ fuel_ring_xs' =
               [i \in 1 .. first |->
                  Named(FuelRingXs(i - 1, t, allocated.xs + i, name), "Fuel")]
          /\ allocated' = [allocated EXCEPT !.xs = @ + first]
     ELSE /\ fuel_ring_xs' =
               [i \in 1 .. num_fuel_rings |->
                  IF i - 1 < first
                  THEN Named(SetXs(fuel_ring_xs[i], FuelRingXs(i - 1, t, 0, name)),
                             "Fuel")
                  ELSE fuel_ring_xs[i]]
          /\ UNCHANGED allocated

RejectSlots_cleared ==
  /\ raised' = "RuntimeError"
  /\ fuel_ring_xs' = <<>>
  /\ UNCHANGED <<allocated, faults>>

\* raise RuntimeError("Number of fuel cross sections does not agree ...")
RejectSlots ==
  /\ raised' = "RuntimeError"
  /\ UNCHANGED <<fuel_ring_xs, allocated, faults>>

set_fuel_xs_for_depletion_step(t, name, stop) ==
  /\ called' = Call("set_fuel_xs_for_depletion_step", Absent)
  /\ UNCHANGED <<num_fuel_rings, depletion_vars, geometry_vars, dancoff_vars,
                 gap_xs, clad_xs, fsr_vars>>
  /\ IF SlotCountOk(Len(fuel_ring_xs))
     THEN SetFuelXs(t, name, FirstXsError(t, stop),
                    IF FirstXsError(t, stop) = num_fuel_rings THEN "none"
                    ELSE FuelRingXsError(FirstXsError(t, stop), t, stop))
     ELSE RejectSlots

set_gap_xs(name) ==
  /\ called' = Call("set_gap_xs", Absent)
  /\ raised' = "none"
  /\ UNCHANGED <<num_fuel_rings, depletion_vars, faults, geometry_vars, dancoff_vars,
                 fuel_ring_xs, clad_xs, fsr_vars>>
  /\ IF gap = None
     THEN UNCHANGED <<gap_xs, allocated>>
     ELSE IF gap_xs = None
     THEN /\ gap_xs' = Named(dilution_xs(allocated.xs + 1, name, gap), "Gap")
          /\ allocated' = [allocated EXCEPT !.xs = @ + 1]
     ELSE /\ gap_xs' = Named(SetXs(gap_xs, dilution_xs(0, name, gap)), "Gap")
          /\ UNCHANGED allocated

\* Ee = 1.0 / (2.0 * (self.clad_radius - inner radius of the clad))
CladEscapeXs ==
  IF gap_radius # Absent THEN Frac(1, 2 * (clad_radius - gap_radius[1]))
  ELSE Frac(1, 2 * (clad_radius - fuel_radius))

\* a float division by zero raises
CladEscapeError == IF CladEscapeXs[2] = 0 THEN "ZeroDivisionError" ELSE "none"

set_clad_xs_for_depletion_step(t, name) ==
  /\ called' = Call("set_clad_xs_for_depletion_step", Absent)
  /\ UNCHANGED <<num_fuel_rings, depletion_vars, faults, geometry_vars, dancoff_vars,
                 fuel_ring_xs, gap_xs, fsr_vars>>
  /\ IF CladEscapeError # "none"
     THEN raised' = CladEscapeError /\ UNCHANGED <<clad_xs, allocated>>
     ELSE IF ~HasIndex(clad_dancoff_corrections, t)
     THEN raised' = "IndexError" /\ UNCHANGED <<clad_xs, allocated>>
     ELSE /\ raised' = "none"
          /\ IF clad_xs = None
             THEN /\ clad_xs' = Named(roman_xs(allocated.xs + 1, name, Clad,
                                               clad_dancoff_corrections[t + 1],
                                               CladEscapeXs), "Clad")
                  /\ allocated' = [allocated EXCEPT !.xs = @ + 1]
             ELSE /\ clad_xs' = Named(SetXs(clad_xs,
                                            roman_xs(0, name, Clad,
                                                     clad_dancoff_corrections[t + 1],
                                                     CladEscapeXs)), "Clad")
                  /\ UNCHANGED allocated

\* the depletion steps asked for, the names the library gives a new
\* CrossSection, the ring at which the library raises (or none, -1)
StepValues == 0 .. MaxDancoff

XsNames == {"", "named"}

XsFaults == {-1} \cup IF faults < MaxFaults THEN Rings ELSE {}

SetFuelXsForStep == \E t \in StepValues, name \in XsNames, stop \in XsFaults :
                      set_fuel_xs_for_depletion_step(t, name, stop)

SetGapXs == \E name \in XsNames : set_gap_xs(name)

SetCladXsForStep == \E t \in StepValues, name \in XsNames :
                      set_clad_xs_for_depletion_step(t, name)

\* the pin after construction, with or without a gap
PinValues == {DefaultArgs(N) : N \in 1 .. MaxRings} \cup
             {[DefaultArgs(N) EXCEPT !.gap = None, !.gap_radius = Absent] :
                N \in 1 .. MaxRings}

InitPin ==
  /\ args \in PinValues
  /\ num_fuel_rings = args.num_fuel_rings
  /\ fuel_ring_materials = [r \in Rings |-> <<InitialFuel>>]
  /\ fuel_ring_flux_spectra = [r \in Rings |-> <<>>]
  /\ fuel_ring_prev_dep_mats = [r \in Rings |-> None]
  /\ fuel_ring_current_dep_mats = [r \in Rings |-> None]
  /\ log = [r \in Rings |-> <<>>]
  /\ a0_stored = [r \in Rings |-> FALSE]
  /\ raised = "none"
  /\ called = Call("__init__", Absent)
  /\ faults = 0
  /\ Geometry(args, NoRounding(num_fuel_rings))
  /\ NothingBuilt

\* the two histories and the clad cross section read from one of them
NextDancoff ==
  \/ AppendFuelDancoff
  \/ AppendCladDancoff
  \/ SetCladXsForStep

SpecDancoff == InitPin /\ [][NextDancoff]_vars

\* --------------------------------------------------- building the cell
PinCellTypes == {"Full", "XN", "XP", "YN", "YP", "I", "II", "III", "IV"}

Min(a, b) == IF a <= b THEN a ELSE b

RMin(p, q) == IF RLess(q, p) THEN q ELSE p

\* a radius given as a rational, as the radii of the rings are kept
Radius(q) == Float(RMul(q, q), 0)

_check_dx_dy_radius(dx, dy, pintype) ==
  IF dx < clad_radius \/ dy < clad_radius THEN "ValueError" ELSE "none"

\* FuelPin._check_dx_dy: the exception it raises, or "none"
_check_dx_dy(dx, dy, pintype) ==
  IF pintype = "Full"
  THEN IF dx < 2 * clad_radius \/ dy < 2 * clad_radius THEN "ValueError" ELSE "none"
  ELSE IF pintype \in {"XN", "XP"}
  THEN IF dx < clad_radius \/ dy < 2 * clad_radius THEN "ValueError" ELSE "none"
  ELSE IF pintype \in {"YN", "YP"}
  THEN IF dy < clad_radius \/ dx < 2 * clad_radius THEN "ValueError" ELSE "none"
  ELSE IF dx < clad_radius \/ dy < clad_radius THEN "ValueError" ELSE "none"

\* the checks make_moc_cell starts with
CellError(dx, dy, pintype) ==
  IF Len(fuel_ring_xs) # num_fuel_rings THEN "RuntimeError"
  ELSE IF gap # None /\ gap_xs = None THEN "RuntimeError"
  ELSE IF clad_xs = None THEN "RuntimeError"
  ELSE _check_dx_dy(dx, dy, pintype)

\* "Add another ring of moderator if possible": its radius as a one-element
\* list, or the empty list
ModeratorRing(dx, dy, pintype) ==
  IF pintype = "Full" /\ Min(dx, dy) > 2 * clad_radius
  THEN <<Radius(Frac(Min(dx, dy), 2))>>
  ELSE IF pintype \in {"XN", "XP"} /\ dx > clad_radius /\ dy > 2 * clad_radius
  THEN <<Radius(RMin(Frac(dx, 1), Frac(dy, 2)))>>
  ELSE IF pintype \in {"YN", "YP"} /\ dy > clad_radius /\ dx > 2 * clad_radius
  THEN <<Radius(RMin(Frac(dx, 2), Frac(dy, 1)))>>
  ELSE IF dx > clad_radius /\ dy > clad_radius
  THEN <<Radius(Frac(Min(dx, dy), 1))>>
  ELSE <<>>

CellRadii(dx, dy, pintype) ==
  fuel_radii
    \o (IF gap_xs # None THEN <<Exact(gap_radius[1])>> ELSE <<>>)
    \o <<Exact(clad_radius)>>
    \o ModeratorRing(dx, dy, pintype)

\* the objects the cell is given, each named by its identity
CellXss(moderator_xs, dx, dy, pintype) ==
  [i \in 1 .. Len(fuel_ring_xs) |-> fuel_ring_xs[i].id]
    \o (IF gap_xs # None THEN <<gap_xs.id>> ELSE <<>>)
    \o <<clad_xs.id>>
    \o (IF ModeratorRing(dx, dy, pintype) # <<>> THEN <<moderator_xs.id>> ELSE <<>>)
    \o <<moderator_xs.id>>

AngularDivisions_always8(pintype) == 8

\* NA, the number of angular divisions
AngularDivisions(pintype) ==
  IF pintype \in {"XN", "XP", "YN", "YP"} THEN 4
  ELSE IF pintype \in {"I", "II", "III", "IV"} THEN 2
  ELSE 8

\* PinCell(radii, xss, dx, dy, pintype): every ring and the region outside the
\* last ring is cut into the angular divisions of the cell type, and every
\* region gets an identifier no region had before
PinCell(radii, xss, dx, dy, pintype, used) ==
  [kind |-> "PinCell", radii |-> radii, xss |-> xss, dx |-> dx, dy |-> dy,
   pintype |-> pintype,
   fsr_ids |-> used + 1 .. used + AngularDivisions(pintype) * (Len(radii) + 1)]

get_all_fsr_ids(c) == c.fsr_ids

\* list(ids) followed by sort()
RECURSIVE Ascending(_, _, _)
Ascending(ids, lo, hi) ==
  IF lo > hi THEN <<>>
  ELSE (IF lo \in ids THEN <<lo>> ELSE <<>>) \o Ascending(ids, lo + 1, hi)

SortedList(ids) ==
  IF ids = {} THEN <<>>
  ELSE Ascending(ids, CHOOSE i \in ids : \A j \in ids : i <= j,
                      CHOOSE i \in ids : \A j \in ids : i >= j)

\* cell_fsr_ids[I : I + NA]
Slice(cell_fsr_ids, I, NA) == SubSeq(cell_fsr_ids, I + 1, I + NA)

\* the index I after the fuel rings and the gap
AfterGap(NA) == (num_fuel_rings + IF gap_xs # None THEN 1 ELSE 0) * NA

\* the loops that record the cell's sorted identifiers
RecordIds(cell_fsr_ids, NA) ==
  /\ fuel_ring_fsr_ids' =
       [r \in Rings |-> fuel_ring_fsr_ids[r] \o Slice(cell_fsr_ids, r * NA, NA)]
  /\ gap_fsr_ids' =
       IF gap_xs # None
       THEN gap_fsr_ids \o Slice(cell_fsr_ids, num_fuel_rings * NA, NA)
       ELSE gap_fsr_ids
  /\ clad_fsr_ids' = clad_fsr_ids \o Slice(cell_fsr_ids, AfterGap(NA), NA)
  /\ mod_fsr_ids' = SubSeq(cell_fsr_ids, AfterGap(NA) + NA + 1, Len(cell_fsr_ids))

\* the cell is built, its identifiers recorded, the cell returned
BuildCell(c) ==
  /\ cell' = c
  /\ allocated' = [allocated EXCEPT !.fsr = @ + Cardinality(get_all_fsr_ids(c)),
                                    !.cells = @ + 1]
  /\ RecordIds(SortedList(get_all_fsr_ids(c)), AngularDivisions(c.pintype))

make_moc_cell(moderator_xs, dx, dy, pintype) ==
  /\ called' = Call("make_moc_cell", Absent)
  /\ raised' = CellError(dx, dy, pintype)
  /\ UNCHANGED <<num_fuel_rings, depletion_vars, faults, geometry_vars, dancoff_vars,
                 xs_vars>>
  /\ IF CellError(dx, dy, pintype) # "none"
     THEN UNCHANGED <<fsr_vars, allocated>>
     ELSE BuildCell(PinCell(CellRadii(dx, dy, pintype),
                            CellXss(moderator_xs, dx, dy, pintype),
                            dx, dy, pintype, allocated.fsr))

\* the moderator's cross sections, an object of the caller
ModeratorXs == CrossSection(-1, "Moderator", [by |-> "caller"])

\* the footprints <<dx, dy>> tried against the clad radius 3 and diameter 6:
\* one width below the radius, one width between radius and diameter, both
\* between, both equal to the diameter, both above it
CellSizes == {<<2, 7>>, <<7, 2>>, <<4, 7>>, <<7, 4>>, <<4, 4>>, <<6, 6>>, <<7, 7>>}

MakeMocCell ==
  /\ allocated.cells < MaxCells
  /\ \E size \in CellSizes, pintype \in PinCellTypes :
       make_moc_cell(ModeratorXs, size[1], size[2], pintype)

\* the pin once a Dancoff correction has been appended to each history
InitCell ==
  /\ args \in PinValues
  /\ num_fuel_rings = args.num_fuel_rings
  /\ fuel_ring_materials = [r \in Rings |-> <<InitialFuel>>]
  /\ fuel_ring_flux_spectra = [r \in Rings |-> <<>>]
  /\ fuel_ring_prev_dep_mats = [r \in Rings |-> None]
  /\ fuel_ring_current_dep_mats = [r \in Rings |-> None]
  /\ log = [r \in Rings |-> <<>>]
  /\ a0_stored = [r \in Rings |-> FALSE]
  /\ raised = "none"
  /\ called = Call("append_clad_dancoff_correction", Absent)
  /\ faults = 0
  /\ Geometry(args, NoRounding(num_fuel_rings))
  /\ fuel_dancoff_corrections = <<Frac(1, 2)>>
  /\ clad_dancoff_corrections = <<Frac(1, 2)>>
  /\ NoSources
  /\ fuel_ring_xs = <<>>
  /\ gap_xs = None
  /\ clad_xs = None
  /\ fuel_ring_fsr_ids = [r \in Rings |-> <<>>]
  /\ gap_fsr_ids = <<>>
  /\ clad_fsr_ids = <<>>
  /\ mod_fsr_ids = <<>>
  /\ cell = None
  /\ allocated = [xs |-> 0, fsr |-> 0, cells |-> 0]

\* a cell of each kind that is wide enough for the pin
MakeWideCell ==
  /\ allocated.cells < MaxCells
  /\ \E pintype \in {"Full", "XP", "IV"} : make_moc_cell(ModeratorXs, 7, 7, pintype)

NextCell ==
  \/ SetFuelXsForStep
  \/ SetGapXs
  \/ SetCladXsForStep
  \/ MakeWideCell

SpecCell == InitCell /\ [][NextCell]_vars

\* the cross sections are built for depletion step 0, then cells are made
BuildFuelXs == \E stop \in XsFaults : set_fuel_xs_for_depletion_step(0, "", stop)

BuildGapXs == set_gap_xs("")

BuildCladXs == set_clad_xs_for_depletion_step(0, "")

NextFootprint ==
  \/ BuildFuelXs
  \/ BuildGapXs
  \/ BuildCladXs
  \/ MakeMocCell

SpecFootprint == InitCell /\ [][NextFootprint]_vars

\* the cell of a pin is built, and built again, wide enough for every type
RemakeCell ==
  /\ allocated.cells < MaxRebuilds
  /\ \E pintype \in PinCellTypes : make_moc_cell(ModeratorXs, 7, 7, pintype)

NextRebuild ==
  \/ BuildFuelXs
  \/ BuildGapXs
  \/ BuildCladXs
  \/ RemakeCell

SpecRebuild == InitCell /\ [][NextRebuild]_vars

\* ------------------------------------- sources of the Dancoff solves
\* SimplePinCell(radii, xs, dx, dy, pintype): one region per cross section,
\* used being the identifiers given out so far
SimplePinCell(radii, xs, dx, dy, pintype, used) ==
  [kind |-> "SimplePinCell", xs |-> xs, dx |-> dx, dy |-> dy, pintype |-> pintype,
   fsr_ids |-> used + 1 .. used + Len(xs)]

\* lines 508-524: the sorted identifiers go to fuel, gap (if any), clad and
\* moderator, appended to the lists of the isolated or of the full geometry
RecordDancoffIds(lists, cell_fsr_ids) ==
  IF gap = None
  THEN [lists EXCEPT !.fuel = Append(@, cell_fsr_ids[1]),
                     !.clad = Append(@, cell_fsr_ids[2]),
                     !.mod = Append(@, cell_fsr_ids[3])]
  ELSE [lists EXCEPT !.fuel = Append(@, cell_fsr_ids[1]),
                     !.gap = Append(@, cell_fsr_ids[2]),
                     !.clad = Append(@, cell_fsr_ids[3]),
                     !.mod = Append(@, cell_fsr_ids[4])]

Geometry_of(isolated) == IF isolated THEN "isolated" ELSE "full"

make_dancoff_moc_cell(moderator_xs, dx, dy, pintype, isolated) ==
  /\ called' = Call("make_dancoff_moc_cell", Absent)
  /\ raised' = _check_dx_dy(dx, dy, pintype)
  /\ UNCHANGED <<num_fuel_rings, depletion_vars, faults, geometry_vars,
                 fuel_dancoff_corrections, clad_dancoff_corrections,
                 dancoff_fsr_inds, extern_src, xs_vars, fsr_vars>>
  /\ IF _check_dx_dy(dx, dy, pintype) # "none"
     THEN UNCHANGED <<dancoff_fsr_ids, allocated>>
     ELSE LET hasGap == gap # None /\ gap_radius # Absent
              radii == <<fuel_radius>> \o (IF hasGap THEN gap_radius ELSE <<>>)
                         \o <<clad_radius>>
              xs == <<"_fuel_dancoff_xs">>
                      \o (IF hasGap THEN <<"_gap_dancoff_xs">> ELSE <<>>)
                      \o <<"_clad_dancoff_xs", moderator_xs>>
              c == SimplePinCell(radii, xs, dx, dy, pintype, allocated.fsr)
          IN  /\ dancoff_fsr_ids' =
                   [dancoff_fsr_ids EXCEPT ![Geometry_of(isolated)] =
                      RecordDancoffIds(@, SortedList(get_all_fsr_ids(c)))]
              /\ allocated' = [allocated EXCEPT !.fsr = @ + Cardinality(get_all_fsr_ids(c))]

\* moc.get_fsr_indx(id, 0): the index of region id in the solver's arrays
get_fsr_indx(id) == id - 1

Resolved(ids) == [i \in 1 .. Len(ids) |-> get_fsr_indx(ids[i])]

ResolvedRegions(lists) ==
  [fuel |-> Resolved(lists.fuel), gap |-> Resolved(lists.gap),
   clad |-> Resolved(lists.clad), mod |-> Resolved(lists.mod)]

populate_dancoff_fsr_indexes ==
  /\ called' = Call("populate_dancoff_fsr_indexes", Absent)
  /\ raised' = "none"
  /\ dancoff_fsr_inds' = [isolated |-> ResolvedRegions(dancoff_fsr_ids.isolated),
                          full |-> ResolvedRegions(dancoff_fsr_ids.full)]
  /\ UNCHANGED <<num_fuel_rings, depletion_vars, faults, geometry_vars,
                 fuel_dancoff_corrections, clad_dancoff_corrections,
                 dancoff_fsr_ids, extern_src, xs_vars, fsr_vars, allocated>>

\* Material.potential_xs
potential_xs(mat) == [kind |-> "potential_xs", of |-> mat]

\* mix_materials(mats, fracs, MixingFraction.Volume, ndl)
mix_materials(mats, fracs) == [kind |-> "Material", mixed |-> mats, fractions |-> fracs]

\* avg_fuel: the newest composition of every ring, in equal volumes
AverageFuel ==
  mix_materials([i \in 1 .. num_fuel_rings |-> Last(fuel_ring_materials[i - 1])],
                [i \in 1 .. num_fuel_rings |-> Frac(1, num_fuel_rings)])

Elements(list) == {list[i] : i \in 1 .. Len(list)}

\* slip: the gap regions are left without a source
SetSources_gapSkipped(src, inds, values) ==
  LET written == Elements(inds.fuel) \cup Elements(inds.clad) \cup Elements(inds.mod)
  IN  [ind \in DOMAIN src \cup written |->
         IF ind \in Elements(inds.mod) THEN values.mod
         ELSE IF ind \in Elements(inds.clad) THEN values.clad
         ELSE IF ind \in Elements(inds.fuel) THEN values.fuel
         ELSE src[ind]]

\* moc.set_extern_src(ind, 0, value) over the fuel, then the gap (when the
\* pin has one), then the clad, then the moderator indexes
SetSources(src, inds, values) ==
  LET gapInds == IF gap # None THEN Elements(inds.gap) ELSE {}
      written == Elements(inds.fuel) \cup gapInds \cup Elements(inds.clad)
                   \cup Elements(inds.mod)
  IN  [ind \in DOMAIN src \cup written |->
         IF ind \in Elements(inds.mod) THEN values.mod
         ELSE IF ind \in Elements(inds.clad) THEN values.clad
         ELSE IF ind \in gapInds THEN values.gap
         ELSE IF ind \in Elements(inds.fuel) THEN values.fuel
         ELSE src[ind]]

\* the sources of a fuel Dancoff calculation, region by region
FuelSources(moderator) ==
  [fuel |-> 0, gap |-> potential_xs(gap), clad |-> potential_xs(Clad),
   mod |-> potential_xs(moderator)]

\* the sources of a clad Dancoff calculation
CladSources(moderator) ==
  [fuel |-> potential_xs(AverageFuel), gap |-> potential_xs(gap), clad |-> 0,
   mod |-> potential_xs(moderator)]

CallSources(op, moderator) ==
  [op |-> op, dt |-> Absent, dtm1 |-> Absent, moderator |-> moderator]

\* the four setters: which solver, which sources
SetDancoffSources(op, geometry, values, moderator) ==
  /\ called' = CallSources(op, moderator)
  /\ raised' = "none"
  /\ extern_src' = [extern_src EXCEPT ![geometry] =
                      SetSources(@, dancoff_fsr_inds[geometry], values)]
  /\ UNCHANGED <<num_fuel_rings, depletion_vars, faults, geometry_vars,
                 fuel_dancoff_corrections, clad_dancoff_corrections,
                 dancoff_fsr_ids, dancoff_fsr_inds, xs_vars, fsr_vars, allocated>>

set_isolated_dancoff_fuel_sources(moderator) ==
  SetDancoffSources("set_isolated_dancoff_fuel_sources", "isolated",
                    FuelSources(moderator), moderator)

set_isolated_dancoff_clad_sources(moderator) ==
  SetDancoffSources("set_isolated_dancoff_clad_sources", "isolated",
                    CladSources(moderator), moderator)

set_full_dancoff_fuel_sources(moderator) ==
  SetDancoffSources("set_full_dancoff_fuel_sources", "full",
                    FuelSources(moderator), moderator)

set_full_dancoff_clad_sources(moderator) ==
  SetDancoffSources("set_full_dancoff_clad_sources", "full",
                    CladSources(moderator), moderator)

\* the moderator Materials offered
Moderators == {[kind |-> "Material", name |-> "water"],
               [kind |-> "Material", name |-> "borated water"]}

MakeDancoffCell ==
  \E isolated \in BOOLEAN, dx \in {2, 7} :
    /\ Len(dancoff_fsr_ids[Geometry_of(isolated)].fuel) < MaxSimpleCells
    /\ make_dancoff_moc_cell(ModeratorXs, dx, 7, "Full", isolated)

PopulateDancoff == populate_dancoff_fsr_indexes

SetIsolatedFuelSources == \E m \in Moderators : set_isolated_dancoff_fuel_sources(m)

SetIsolatedCladSources == \E m \in Moderators : set_isolated_dancoff_clad_sources(m)

SetFullFuelSources == \E m \in Moderators : set_full_dancoff_fuel_sources(m)

SetFullCladSources == \E m \in Moderators : set_full_dancoff_clad_sources(m)

NextSources ==
  \/ MakeDancoffCell
  \/ PopulateDancoff
  \/ SetIsolatedFuelSources
  \/ SetIsolatedCladSources
  \/ SetFullFuelSources
  \/ SetFullCladSources
  \/ PredictOnce

SpecSources == InitPin /\ [][NextSources]_vars

\* ------------------------------------------------- calling the constructor
RadiusValues == -1 .. MaxRadius

ArgValues == [fuel_radius : RadiusValues, clad_radius : RadiusValues,
              gap : {None, GapMaterial},
              gap_radius : {Absent} \cup {<<v>> : v \in RadiusValues},
              num_fuel_rings : 0 .. MaxRings]

\* the rounding errors of the N computed radii
Roundings(N) == [1 .. N -> {-1, 0, 1}]

\* FuelPin(...) is about to be called with args
InitConstruct ==
  /\ args \in ArgValues
  /\ constructed = FALSE
  /\ num_fuel_rings = 0
  /\ fuel_radius = None /\ gap = None /\ gap_radius = Absent /\ clad_radius = None
  /\ fuel_radii = <<>>
  /\ fuel_ring_materials = <<>>
  /\ fuel_ring_flux_spectra = <<>>
  /\ fuel_ring_prev_dep_mats = <<>>
  /\ fuel_ring_current_dep_mats = <<>>
  /\ log = <<>>
  /\ a0_stored = <<>>
  /\ raised = "none"
  /\ called = Call("none", Absent)
  /\ faults = 0
  /\ NothingBuilt

__init__(rounding) ==
  /\ ~constructed
  /\ called.op # "__init__"
  /\ called' = Call("__init__", Absent)
  /\ raised' = ConstructError(args)
  /\ UNCHANGED <<args, faults, dancoff_vars, xs_vars, gap_fsr_ids, clad_fsr_ids,
                 mod_fsr_ids, cell, allocated>>
  /\ IF ConstructError(args) # "none"
     THEN UNCHANGED <<num_fuel_rings, depletion_vars, constructed, fuel_radius, gap,
                      gap_radius, clad_radius, fuel_radii, fuel_ring_fsr_ids>>
     ELSE /\ num_fuel_rings' = args.num_fuel_rings
          /\ constructed' = TRUE
          /\ fuel_radius' = args.fuel_radius
          /\ gap' = args.gap
          /\ gap_radius' = args.gap_radius
          /\ clad_radius' = args.clad_radius
          /\ fuel_radii' = FuelRadii(args.fuel_radius, args.num_fuel_rings, rounding)
          /\ fuel_ring_fsr_ids' = [r \in 0 .. args.num_fuel_rings - 1 |-> <<>>]
          /\ fuel_ring_materials' = [r \in 0 .. args.num_fuel_rings - 1 |-> <<InitialFuel>>]
          /\ fuel_ring_flux_spectra' = [r \in 0 .. args.num_fuel_rings - 1 |-> <<>>]
          /\ fuel_ring_prev_dep_mats' = [r \in 0 .. args.num_fuel_rings - 1 |-> None]
          /\ fuel_ring_current_dep_mats' = [r \in 0 .. args.num_fuel_rings - 1 |-> None]
          /\ log' = [r \in 0 .. args.num_fuel_rings - 1 |-> <<>>]
          /\ a0_stored' = [r \in 0 .. args.num_fuel_rings - 1 |-> FALSE]

Construct == \E rounding \in Roundings(args.num_fuel_rings) : __init__(rounding)

NextConstruct == Construct

SpecConstruct == InitConstruct /\ [][NextConstruct]_vars

\* ------------------------------------- the clad of a constructed pin
\* a Dancoff correction for the clad, once the pin exists
AppendCladHalf ==
  /\ constructed
  /\ append_clad_dancoff_correction(Frac(1, 2))

\* the clad cross sections of the first step
SetCladXsFirst ==
  /\ constructed
  /\ \E t \in {0, 1} : set_clad_xs_for_depletion_step(t, "")

NextEscape == Construct \/ AppendCladHalf \/ SetCladXsFirst

SpecEscape == InitConstruct /\ [][NextEscape]_vars


\* ============================================================== claims
\* the step is a call of predict_depletion / of correct_depletion
Predicting == called'.op = "predict_depletion"

Correcting == called'.op = "correct_depletion"

PredictorCompleted(r) == log'[r] = Append(log[r], "P")

CorrectorCompleted(r) == log'[r] = Append(log[r], "C")

Composition(r, i) == fuel_ring_materials[r][i].composition

\* the log is P C P C ... P C
Alternating(l) ==
  /\ Len(l) % 2 = 0
  /\ \A i \in 1 .. Len(l) : l[i] = IF i % 2 = 1 THEN "P" ELSE "C"

\* C1 (as stated): for every ring the completed passes strictly alternate
\* predictor, corrector: a predictor pass completes only when the ring's
\* last completed pass is not a predictor, and a corrector pass completes
\* only when the ring's last completed pass is a predictor.
C1_StrictAlternation ==
  [][\A r \in Rings :
       /\ PredictorCompleted(r) => (log[r] = <<>> \/ Last(log[r]) = "C")
       /\ CorrectorCompleted(r) => (log[r] # <<>> /\ Last(log[r]) = "P")]_vars

\* C1 (amended): the predictor is not guarded, but a corrector pass
\* completes for a ring only if a predictor pass has stored its A0 for that
\* ring since the ring's last completed corrector pass (or construction)
\* and the ring's history holds at least two compositions.
C1_CorrectorNeedsStoredA0 ==
  [][\A r \in Rings :
       CorrectorCompleted(r) =>
         a0_stored[r] /\ Len(fuel_ring_materials[r]) >= 2]_vars

\* a corrector pass completed right after two predictor passes in a row
C1_Witness ==
  \E r \in Rings : log[r] = <<"P", "P", "C">> /\ ~a0_stored[r]

\* C2: a predict_depletion call that completes appends exactly one
\* composition to every ring's history; every earlier entry keeps its
\* index (and its composition and temperature).
C2_PredictAppendsOne ==
  [][(Predicting /\ raised' = "none") =>
       \A r \in Rings :
         /\ Len(fuel_ring_materials'[r]) = Len(fuel_ring_materials[r]) + 1
         /\ \A i \in 1 .. Len(fuel_ring_materials[r]) :
              /\ fuel_ring_materials'[r][i].id = fuel_ring_materials[r][i].id
              /\ fuel_ring_materials'[r][i].composition = Composition(r, i)
              /\ fuel_ring_materials'[r][i].temperature
                   = fuel_ring_materials[r][i].temperature]_vars

\* a second predictor call has completed on a two-ring pin
C2_Witness ==
  /\ num_fuel_rings = 2
  /\ raised = "none"
  /\ \A r \in Rings :
       /\ log[r] = <<"P", "C", "P">>
       /\ Len(fuel_ring_materials[r]) = 3
       /\ Composition(r, 3).pass = "predictor"

\* C3: correct_depletion never changes the length of a ring's history and
\* never replaces or mutates an entry other than the newest one.
C3_CorrectOnlyTip ==
  [][Correcting =>
       \A r \in Rings :
         /\ Len(fuel_ring_materials'[r]) = Len(fuel_ring_materials[r])
         /\ \A i \in 1 .. Len(fuel_ring_materials[r]) - 1 :
              fuel_ring_materials'[r][i] = fuel_ring_materials[r][i]]_vars

\* the corrector has overwritten the tip of a three-entry history
C3_Witness ==
  \E r \in Rings :
    /\ Len(fuel_ring_materials[r]) = 3
    /\ Composition(r, 3).pass = "corrector"
    /\ Composition(r, 2).pass = "corrector"
    /\ Composition(r, 1) = InitialFuel.composition

\* C4: after k predictor/corrector steps completed in alternation on a
\* fresh pin, a ring's history has exactly k + 1 entries.
C4_HistoryLength ==
  \A r \in Rings :
    Alternating(log[r]) => Len(fuel_ring_materials[r]) = Len(log[r]) \div 2 + 1

\* every ring has completed two steps and holds three compositions
C4_Witness ==
  \A r \in Rings :
    log[r] = <<"P", "C", "P", "C">> /\ Len(fuel_ring_materials[r]) = 3

\* C5: correct_depletion called when no predictor pass has stored an A0
\* since the last completed corrector (or construction) ends with an
\* error and changes no ring's compositions or matrices.
C5_CorrectWithoutPredict ==
  [][(Correcting /\ \A r \in Rings : ~a0_stored[r]) =>
       /\ raised' # "none"
       /\ UNCHANGED <<fuel_ring_materials, fuel_ring_prev_dep_mats,
                      fuel_ring_current_dep_mats>>]_vars

\* a corrector was called again after a completed step and raised
C5_Witness ==
  /\ raised = "TypeError"
  /\ \A r \in Rings : log[r] # <<>> /\ Last(log[r]) = "C" /\ ~a0_stored[r]


\* C6: when correct_depletion completes, every ring's previous matrix is
\* the matrix that was its current one (the A0 the predictor stored), and
\* its current matrix is None.
C6_RotationOnCompletion ==
  [][(Correcting /\ raised' = "none") =>
       \A r \in Rings :
         /\ fuel_ring_current_dep_mats[r] # None
         /\ fuel_ring_prev_dep_mats'[r] = fuel_ring_current_dep_mats[r]
         /\ fuel_ring_current_dep_mats'[r] = None]_vars

\* the first step has completed: previous is the operator built from the
\* initial load, current is cleared
C6_Witness ==
  /\ raised = "none"
  /\ \A r \in Rings :
       /\ log[r] = <<"P", "C">>
       /\ fuel_ring_prev_dep_mats[r].kind = "DepletionMatrix"
       /\ fuel_ring_prev_dep_mats[r].mat = InitialFuel.id
       /\ fuel_ring_current_dep_mats[r] = None

\* C7: a ring's previous matrix changes only in a correct_depletion call,
\* and only for a ring whose corrector pass completes in that call;
\* predict_depletion leaves every previous matrix as it was.
C7_OnlyCorrectorRotates ==
  [][/\ \A r \in Rings :
          fuel_ring_prev_dep_mats'[r] # fuel_ring_prev_dep_mats[r] =>
            Correcting /\ CorrectorCompleted(r)
     /\ Predicting => fuel_ring_prev_dep_mats' = fuel_ring_prev_dep_mats]_vars

\* a second predictor pass has run with the previous matrix of step one
\* still in place
C7_Witness ==
  \E r \in Rings :
    /\ log[r] = <<"P", "C", "P">>
    /\ fuel_ring_prev_dep_mats[r] # None
    /\ fuel_ring_prev_dep_mats[r].mat = InitialFuel.id
    /\ fuel_ring_current_dep_mats[r] # None

\* the scheme a composition was computed with, read off the operators
\* that were applied: CE/LI applies dt*A0 (predictor) or two blends of A0
\* and Ap1 (corrector); LE/QI applies two blends that include Am1.
UsedCELI(comp) ==
  IF comp.pass = "predictor"
  THEN Len(comp.ops) = 1 /\ comp.ops[1].kind = "DepletionMatrix"
  ELSE /\ Len(comp.ops) = 2
       /\ \A i \in 1 .. 2 : comp.ops[i].kind = "Blend" /\ Len(comp.ops[i].terms) = 2

UsedLEQI(comp) ==
  /\ Len(comp.ops) = 2
  /\ \A i \in 1 .. 2 :
       /\ comp.ops[i].kind = "Blend"
       /\ Len(comp.ops[i].terms) = IF comp.pass = "predictor" THEN 2 ELSE 3

NewTip(r) == fuel_ring_materials'[r][Len(fuel_ring_materials'[r])].composition

\* C8: a pass that completes in a call made without dtm1 computes its
\* composition with CE/LI, whatever the ring's history.
C8_AbsentDtm1UsesCELI ==
  [][((Predicting \/ Correcting) /\ called'.dtm1 = Absent) =>
       \A r \in Rings :
         (PredictorCompleted(r) \/ CorrectorCompleted(r)) => UsedCELI(NewTip(r))]_vars

\* a later step, with a previous matrix in place, was predicted with CE/LI
C8_Witness ==
  \E r \in Rings :
    /\ log[r] = <<"P", "C", "P">>
    /\ fuel_ring_prev_dep_mats[r] # None
    /\ UsedCELI(Composition(r, 3))

\* C9: a pass that completes in a call made with dtm1 uses CE/LI while
\* the ring has completed no corrector pass yet (its first step), and
\* LE/QI once it has.
C9_SuppliedDtm1Scheme ==
  [][((Predicting \/ Correcting) /\ called'.dtm1 # Absent) =>
       \A r \in Rings :
         (PredictorCompleted(r) \/ CorrectorCompleted(r)) =>
           IF \E i \in 1 .. Len(log[r]) : log[r][i] = "C"
           THEN UsedLEQI(NewTip(r))
           ELSE UsedCELI(NewTip(r))]_vars

\* the second step of a ring was predicted and corrected with LE/QI
C9_Witness ==
  \E r \in Rings :
    /\ log[r] = <<"P", "C", "P", "C">>
    /\ UsedCELI(Composition(r, 2))
    /\ UsedLEQI(Composition(r, 3))
    /\ Composition(r, 3).pass = "corrector"

\* the matrices a composition's operators were blended from
OperandsOf(comp) ==
  UNION {IF comp.ops[i].kind = "Blend"
         THEN {comp.ops[i].terms[j].A : j \in 1 .. Len(comp.ops[i].terms)}
         ELSE {comp.ops[i]} : i \in 1 .. Len(comp.ops)}

\* C10: a completed corrector pass starts from the densities of the
\* composition two entries back, not from the predicted one; the
\* predicted composition enters only through Ap1, the other operands
\* being the ring's stored current and previous matrices.
C10_CorrectorSource ==
  [][\A r \in Rings :
       CorrectorCompleted(r) =>
         LET n == Len(fuel_ring_materials[r])
             predicted == fuel_ring_materials[r][n]
             Ap1 == build_depletion_matrix(predicted, fuel_ring_flux_spectra[r])
         IN  /\ NewTip(r).N0 = fuel_ring_materials[r][n - 1].id
             /\ NewTip(r).N0 # predicted.id
             /\ Ap1 \in OperandsOf(NewTip(r))
             /\ OperandsOf(NewTip(r)) \subseteq
                  {Ap1, fuel_ring_current_dep_mats[r], fuel_ring_prev_dep_mats[r]}]_vars

\* a corrected composition starts from the initial load while its Ap1 was
\* built from a predicted composition
C10_Witness ==
  \E r \in Rings :
    /\ log[r] = <<"P", "C">>
    /\ Composition(r, 2).pass = "corrector"
    /\ Composition(r, 2).N0 = InitialFuel.id
    /\ \E A \in OperandsOf(Composition(r, 2)) : A.mat = MatId(2, 0)

\* C11: when predict_depletion has returned, every ring's current matrix
\* is the operator built from the composition and flux the pass started
\* from, in unscaled form (CE/LI multiplies by dt and divides by dt again,
\* LE/QI never scales it); a corrector pass that completes blends the
\* stored matrix as it is.
C11_StoredA0Unscaled ==
  [][/\ (Predicting /\ raised' = "none") =>
          \A r \in Rings :
            /\ fuel_ring_current_dep_mats'[r].scale = ROne
            /\ fuel_ring_current_dep_mats'[r] =
                 build_depletion_matrix(Last(fuel_ring_materials[r]),
                                        fuel_ring_flux_spectra[r])
     /\ \A r \in Rings :
          CorrectorCompleted(r) =>
            fuel_ring_current_dep_mats[r] \in OperandsOf(NewTip(r))]_vars

\* a CE/LI predictor (no previous matrix), then an LE/QI predictor have
\* returned; the stored operator is unscaled and built from the second
\* composition
C11_Witness ==
  /\ called.op = "predict_depletion"
  /\ called.dtm1 # Absent
  /\ raised = "none"
  /\ \A r \in Rings :
       /\ log[r] = <<"P", "C", "P">>
       /\ UsedCELI(Composition(r, 2))
       /\ UsedLEQI(Composition(r, 3))
       /\ fuel_ring_current_dep_mats[r].scale = ROne
       /\ fuel_ring_current_dep_mats[r].mat = MatId(2, 1)

\* C12: predict_depletion and correct_depletion called with dt <= 0 end
\* with a ValueError and change no ring's history, flux spectrum, current
\* matrix or previous matrix.
C12_NonPositiveDt ==
  [][((Predicting \/ Correcting) /\ called'.dt[1] <= 0) =>
       /\ raised' = "ValueError"
       /\ UNCHANGED <<fuel_ring_materials, fuel_ring_flux_spectra,
                      fuel_ring_current_dep_mats, fuel_ring_prev_dep_mats>>]_vars

\* a corrector that had everything it needs was called with dt <= 0
C12_Witness ==
  /\ called.op = "correct_depletion"
  /\ called.dt[1] <= 0
  /\ raised = "ValueError"
  /\ \A r \in Rings :
       /\ a0_stored[r]
       /\ Len(fuel_ring_materials[r]) = 2
       /\ fuel_ring_current_dep_mats[r] # None

\* the arguments satisfy 0 < fuel_radius < gap_radius (if a gap is present)
\* < clad_radius and num_fuel_rings >= 1, gap and gap radius given together
ValidArgs(a) ==
  /\ 0 < a.fuel_radius
  /\ a.num_fuel_rings >= 1
  /\ a.gap = None <=> a.gap_radius = Absent
  /\ a.gap_radius # Absent =>
       a.fuel_radius < a.gap_radius[1] /\ a.gap_radius[1] < a.clad_radius
  /\ a.fuel_radius < a.clad_radius

\* C15: the constructor returns only for valid arguments and raises a
\* ValueError for any other, so an existing FuelPin has
\* 0 < fuel_radius < gap_radius (if a gap is present) < clad_radius, a gap
\* radius exactly when it has a gap material, and at least one ring.
C15_ConstructionValidates ==
  /\ constructed =>
       /\ ValidArgs(args)
       /\ 0 < fuel_radius /\ fuel_radius < clad_radius
       /\ num_fuel_rings >= 1
       /\ gap = None <=> gap_radius = Absent
       /\ gap # None => fuel_radius < gap_radius[1] /\ gap_radius[1] < clad_radius
  /\ (called.op = "__init__" /\ ~ValidArgs(args)) =>
       raised = "ValueError" /\ ~constructed
  /\ (called.op = "__init__" /\ ValidArgs(args)) =>
       raised = "none" /\ constructed

\* a gap material given without a gap radius, everything else in order, was
\* rejected
C15_Witness ==
  /\ called.op = "__init__"
  /\ raised = "ValueError"
  /\ ~constructed
  /\ args.gap # None /\ args.gap_radius = Absent
  /\ 0 < args.fuel_radius /\ args.fuel_radius < args.clad_radius
  /\ args.num_fuel_rings >= 1

\* C16 (as stated): the constructor produces exactly N boundary radii,
\* strictly increasing, the last equal to the fuel radius R, every ring of
\* area pi*R^2/N (up to rounding); for N = 1 the single boundary is R.
C16_EqualAreaRadii ==
  constructed =>
    /\ Len(fuel_radii) = num_fuel_rings
    /\ \A i \in 1 .. num_fuel_rings - 1 : Greater(fuel_radii[i + 1], fuel_radii[i])
    /\ Last(fuel_radii) = Exact(fuel_radius)
    /\ \A i \in 1 .. num_fuel_rings :
         fuel_radii[i].sq =
           RAdd(IF i = 1 THEN Frac(0, 1) ELSE fuel_radii[i - 1].sq,
                Frac(fuel_radius * fuel_radius, num_fuel_rings))
    /\ num_fuel_rings = 1 => fuel_radii = <<Exact(fuel_radius)>>

\* 0 <= C <= 1
InUnitRange(C) == ~RLess(C, Frac(0, 1)) /\ ~RLess(Frac(1, 1), C)

\* C13: append_fuel_dancoff_correction and append_clad_dancoff_correction
\* append C and return for every 0 <= C <= 1, both boundaries included, and
\* raise a ValueError that leaves the history as it was for every other C.
C13_DancoffRange ==
  [][\A C \in DancoffValues :
       /\ append_fuel_dancoff_correction(C) =>
            IF InUnitRange(C)
            THEN /\ raised' = "none"
                 /\ fuel_dancoff_corrections' = Append(fuel_dancoff_corrections, C)
            ELSE /\ raised' = "ValueError"
                 /\ fuel_dancoff_corrections' = fuel_dancoff_corrections
       /\ append_clad_dancoff_correction(C) =>
            IF InUnitRange(C)
            THEN /\ raised' = "none"
                 /\ clad_dancoff_corrections' = Append(clad_dancoff_corrections, C)
            ELSE /\ raised' = "ValueError"
                 /\ clad_dancoff_corrections' = clad_dancoff_corrections]_vars

\* the boundary 1 was accepted for the fuel and 0 for the clad, and a value
\* out of range was then rejected
C13_Witness ==
  /\ fuel_dancoff_corrections = <<Frac(1, 1)>>
  /\ clad_dancoff_corrections = <<Frac(0, 1)>>
  /\ called.op = "append_clad_dancoff_correction"
  /\ raised = "ValueError"

\* C14: the Dancoff histories only grow at the end, every stored value is
\* in [0, 1], the fuel history changes only in
\* append_fuel_dancoff_correction and the clad history only in
\* append_clad_dancoff_correction.
C14_DancoffAppendOnly ==
  [][/\ Len(fuel_dancoff_corrections') >= Len(fuel_dancoff_corrections)
     /\ Len(clad_dancoff_corrections') >= Len(clad_dancoff_corrections)
     /\ \A i \in 1 .. Len(fuel_dancoff_corrections) :
          fuel_dancoff_corrections'[i] = fuel_dancoff_corrections[i]
     /\ \A i \in 1 .. Len(clad_dancoff_corrections) :
          clad_dancoff_corrections'[i] = clad_dancoff_corrections[i]
     /\ \A i \in 1 .. Len(fuel_dancoff_corrections') :
          InUnitRange(fuel_dancoff_corrections'[i])
     /\ \A i \in 1 .. Len(clad_dancoff_corrections') :
          InUnitRange(clad_dancoff_corrections'[i])
     /\ fuel_dancoff_corrections' # fuel_dancoff_corrections =>
          called'.op = "append_fuel_dancoff_correction"
     /\ clad_dancoff_corrections' # clad_dancoff_corrections =>
          called'.op = "append_clad_dancoff_correction"]_vars

\* both histories hold two values and the clad cross section was built from
\* the second clad correction
C14_Witness ==
  /\ Len(fuel_dancoff_corrections) = 2
  /\ Len(clad_dancoff_corrections) = 2
  /\ clad_dancoff_corrections[1] # clad_dancoff_corrections[2]
  /\ clad_xs # None
  /\ clad_xs.value.C = clad_dancoff_corrections[2]

\* the identities of the objects the pin holds, fuel rings first, then the
\* gap, then the clad
Referred ==
  [i \in 1 .. Len(fuel_ring_xs) |-> fuel_ring_xs[i].id]
    \o (IF gap_xs # None THEN <<gap_xs.id>> ELSE <<>>)
    \o (IF clad_xs # None THEN <<clad_xs.id>> ELSE <<>>)

CellRefersToSlots ==
  cell # None => SubSeq(cell.xss, 1, Len(Referred)) = Referred

\* C17: set_fuel_xs_for_depletion_step creates the N fuel-ring objects on
\* its first successful call and afterwards updates those N objects in
\* place: the object in a slot (fuel ring r, gap, clad) is the same object
\* after every step, and a cell built by make_moc_cell refers to exactly
\* the objects the slots hold, so it sees every update.
C17_XsUpdatedInPlace ==
  [][/\ \A i \in 1 .. Len(fuel_ring_xs) :
          /\ i <= Len(fuel_ring_xs')
          /\ fuel_ring_xs'[i].id = fuel_ring_xs[i].id
     /\ gap_xs # None => (gap_xs' # None /\ gap_xs'.id = gap_xs.id)
     /\ clad_xs # None => (clad_xs' # None /\ clad_xs'.id = clad_xs.id)
     /\ (called'.op = "set_fuel_xs_for_depletion_step" /\ raised' = "none")
          => /\ Len(fuel_ring_xs') = num_fuel_rings
             /\ Len(fuel_ring_xs) = 0 =>
                  \A i, j \in 1 .. num_fuel_rings :
                    /\ fuel_ring_xs'[i].id > allocated.xs
                    /\ i # j => fuel_ring_xs'[i].id # fuel_ring_xs'[j].id
     /\ CellRefersToSlots']_vars

\* a cell exists and the fuel cross sections of a two-ring pin have just
\* been updated
C17_Witness ==
  /\ cell # None
  /\ num_fuel_rings >= 2
  /\ called.op = "set_fuel_xs_for_depletion_step"
  /\ raised = "none"

\* C18: when the number of fuel cross-section slots is neither 0 nor the
\* ring count, set_fuel_xs_for_depletion_step fails with an error and
\* modifies no cross-section slot.
C18_SlotCountMismatch ==
  [][(/\ called'.op = "set_fuel_xs_for_depletion_step"
      /\ Len(fuel_ring_xs) # 0
      /\ Len(fuel_ring_xs) # num_fuel_rings)
       => (raised' # "none" /\ UNCHANGED xs_vars)]_vars

\* the call was refused for a slot count that is neither 0 nor N
C18_Witness ==
  /\ called.op = "set_fuel_xs_for_depletion_step"
  /\ raised = "RuntimeError"
  /\ Len(fuel_ring_xs) # 0
  /\ Len(fuel_ring_xs) # num_fuel_rings

\* the cell is narrower than the cladding: its diameter along an axis the
\* cell type does not split, its radius along an axis it splits
TooSmall(dx, dy, pintype) ==
  \/ dx < (IF pintype \in {"Full", "YN", "YP"} THEN 2 * clad_radius ELSE clad_radius)
  \/ dy < (IF pintype \in {"Full", "XN", "XP"} THEN 2 * clad_radius ELSE clad_radius)

CrossSectionsIncomplete ==
  \/ Len(fuel_ring_xs) # num_fuel_rings
  \/ gap # None /\ gap_xs = None
  \/ clad_xs = None

\* C19: make_moc_cell fails with an error if the fuel-ring cross sections
\* are not all built, if a gap exists and its cross section is not built,
\* if the clad cross section is not built, or if the footprint is too small
\* for the split type (a call that returns the cell it built was given
\* none of these); a failed call records no region identifier.
C19_MakeMocCellRefuses ==
  [][/\ (called'.op = "make_moc_cell" /\ raised' = "none")
          => /\ ~CrossSectionsIncomplete
             /\ ~TooSmall(cell'.dx, cell'.dy, cell'.pintype)
     /\ (called'.op = "make_moc_cell" /\ raised' # "none")
          => UNCHANGED <<fuel_ring_fsr_ids, gap_fsr_ids, clad_fsr_ids, mod_fsr_ids>>]_vars

\* all cross sections are built and the call was refused for the footprint
C19_Witness ==
  /\ called.op = "make_moc_cell"
  /\ raised = "ValueError"
  /\ ~CrossSectionsIncomplete

\* the identifiers a call added to a list
NewIds(old, new) == SubSeq(new, Len(old) + 1, Len(new))

\* what the step added for the radial regions, innermost first
Parts ==
  [k \in 1 .. num_fuel_rings |->
     NewIds(fuel_ring_fsr_ids[k - 1], fuel_ring_fsr_ids'[k - 1])]
    \o (IF gap # None THEN <<NewIds(gap_fsr_ids, gap_fsr_ids')>> ELSE <<>>)
    \o <<NewIds(clad_fsr_ids, clad_fsr_ids')>>

RECURSIVE Flatten(_)
Flatten(ss) == IF ss = <<>> THEN <<>> ELSE Head(ss) \o Flatten(Tail(ss))

StrictlyAscending(s) == \A i \in 1 .. Len(s) - 1 : s[i] < s[i + 1]

Partitioned(NA, parts, all) ==
  /\ \A k \in 1 .. Len(parts) : Len(parts[k]) = NA
  /\ \A r \in Rings :
       SubSeq(fuel_ring_fsr_ids'[r], 1, Len(fuel_ring_fsr_ids[r])) = fuel_ring_fsr_ids[r]
  /\ SubSeq(gap_fsr_ids', 1, Len(gap_fsr_ids)) = gap_fsr_ids
  /\ gap = None => gap_fsr_ids' = gap_fsr_ids
  /\ SubSeq(clad_fsr_ids', 1, Len(clad_fsr_ids)) = clad_fsr_ids
  /\ StrictlyAscending(all)
  /\ {all[i] : i \in 1 .. Len(all)} = cell'.fsr_ids

\* C20: a successful make_moc_cell hands out the cell's region identifiers
\* in ascending order, NA = 8 (full), 4 (half) or 2 (quarter) at a time: NA
\* to fuel ring 0, NA to ring 1, ..., NA to the gap if there is one, NA to
\* the clad and the rest to the moderator; what the lists receive is
\* pairwise disjoint and is every identifier of the cell.
C20_RegionIdsPartitioned ==
  [][(called'.op = "make_moc_cell" /\ raised' = "none")
       => \A parts \in {Parts} : \A all \in {Flatten(parts) \o mod_fsr_ids'} :
            Partitioned(IF cell'.pintype = "Full" THEN 8
                        ELSE IF cell'.pintype \in {"XN", "XP", "YN", "YP"} THEN 4
                        ELSE 2,
                        parts, all)]_vars

\* a half cell was built around a two-ring pin with a gap
C20_Witness ==
  /\ cell # None
  /\ num_fuel_rings = 2
  /\ Len(gap_fsr_ids) = 4
  /\ Len(clad_fsr_ids) = 4
  /\ mod_fsr_ids # <<>>

\* NA of the cell the pin built last
BuiltDivisions == AngularDivisions(cell.pintype)

\* C21 (as stated): once make_moc_cell has succeeded, every fuel ring's
\* list holds exactly NA identifiers, NA being the angular divisions of the
\* built cell, the clad list holds NA and the gap list NA (0 without a gap).
C21_OneIdPerDivision ==
  cell # None =>
    /\ \A r \in Rings : Len(fuel_ring_fsr_ids[r]) = BuiltDivisions
    /\ Len(clad_fsr_ids) = BuiltDivisions
    /\ Len(gap_fsr_ids) = IF gap = None THEN 0 ELSE BuiltDivisions

\* C22: normalize_flux_spectrum(f) with f <= 0 raises and leaves every
\* ring's flux spectrum as it was; with f > 0 it multiplies every group flux
\* of every ring by f; in both cases compositions, matrices, the Dancoff
\* histories and everything else of the pin stay as they were.
C22_NormalizeFlux ==
  [][called'.op = "normalize_flux_spectrum" =>
       /\ UNCHANGED <<num_fuel_rings, fuel_ring_materials,
                      fuel_ring_prev_dep_mats, fuel_ring_current_dep_mats,
                      geometry_vars, dancoff_vars, xs_vars, fsr_vars>>
       /\ IF called'.f[1] <= 0
          THEN /\ raised' = "ValueError"
               /\ UNCHANGED fuel_ring_flux_spectra
          ELSE /\ raised' = "none"
               /\ \A r \in Rings :
                    /\ DOMAIN fuel_ring_flux_spectra'[r] =
                         DOMAIN fuel_ring_flux_spectra[r]
                    /\ \A g \in DOMAIN fuel_ring_flux_spectra[r] :
                         fuel_ring_flux_spectra'[r][g] =
                           called'.f[1] * fuel_ring_flux_spectra[r][g]]_vars

\* a pin with a depletion history whose spectra were doubled
C22_Witness ==
  /\ called.op = "normalize_flux_spectrum"
  /\ called.f[1] = 2
  /\ raised = "none"
  /\ \A r \in Rings : fuel_ring_flux_spectra[r] # <<>>
  /\ \E r \in Rings : fuel_ring_flux_spectra[r][1] = MaxFlux
  /\ \A r \in Rings : Len(fuel_ring_materials[r]) = 2

\* a list of compositions and a list of group fluxes are values of different
\* kinds: they are compared through their printed form
SameValue(a, b) == ToString(a) = ToString(b)

\* C23 (as stated): after obtain_flux_spectra, and after any
\* normalize_flux_spectrum, reading the public attribute
\* fuel_ring_flux_spectra yields for every ring the flux spectrum currently
\* stored for that ring.
C23_FluxSpectraExposed ==
  called.op \in {"obtain_flux_spectra", "normalize_flux_spectrum"} =>
    \A r \in Rings :
      SameValue(fuel_ring_flux_spectra_getter[r], fuel_ring_flux_spectra[r])

\* a pin that agrees with this one on ring i and holds alt in every other ring
AgreeingPin(i, alt) == [r \in Rings |-> IF r = i THEN Ring(i) ELSE alt]

StepBodies(op, rings, dtm1) ==
  IF op = "predict_depletion" THEN PredictBodies(rings, DtInput, dtm1, NoFault)
  ELSE CorrectBodies(rings, DtInput, dtm1, NoFault)

\* what the call leaves in ring i, and the exception it ends with
Outcome(bodies, first, i) ==
  [ring |-> AfterLoop(bodies, first, i).ring, raised |-> LoopError(bodies, first)]

OutcomeOf(op, rings, dtm1, i) ==
  LET bodies == Bodies(StepBodies(op, rings, dtm1), num_fuel_rings)
  IN  Outcome(bodies, FirstError(bodies), i)

StepOps == {"predict_depletion", "correct_depletion"}

Expm(F, N) == [kind |-> "exponential_product", F |-> F, N |-> N]

\* the vector a composition was built from: its operators applied one after
\* the other to the starting densities
RECURSIVE ApplyAll(_, _)
ApplyAll(ops, N) ==
  IF ops = <<>> THEN N
  ELSE Expm(Last(ops), ApplyAll(SubSeq(ops, 1, Len(ops) - 1), N))

ResultOf(comp) == ApplyAll(comp.ops, comp.N0)

\* C25: the two blended operators act in a fixed order, the later on the
\* result of the earlier: the LE/QI predictor builds its composition from
\* F1 applied to (F2 applied to N), the CE/LI corrector from F1 applied to
\* (F2 applied to N), the LE/QI corrector from F3 applied to (F4 applied to
\* N).
C25_OperatorOrder ==
  [][\A r \in Rings :
       LET dt == called'.dt[1]
           dtm1 == called'.dtm1
           Am1 == fuel_ring_prev_dep_mats[r]
           n == Len(fuel_ring_materials[r])
           tip == fuel_ring_materials[r][n]
           built == build_depletion_matrix(tip, fuel_ring_flux_spectra[r])
           A0 == fuel_ring_current_dep_mats[r]
       IN  /\ (PredictorCompleted(r) /\ ~UseCELI(Am1, dtm1)) =>
                ResultOf(NewTip(r)) =
                  Expm(PredictorF1(Am1, built, dt, dtm1[1]),
                       Expm(PredictorF2(Am1, built, dt, dtm1[1]), Densities(tip)))
           /\ (CorrectorCompleted(r) /\ UseCELI(Am1, dtm1)) =>
                ResultOf(NewTip(r)) =
                  Expm(CorrectorF1(A0, built, dt),
                       Expm(CorrectorF2(A0, built, dt),
                            Densities(fuel_ring_materials[r][n - 1])))
           /\ (CorrectorCompleted(r) /\ ~UseCELI(Am1, dtm1)) =>
                ResultOf(NewTip(r)) =
                  Expm(CorrectorF3(Am1, A0, built, dt, dtm1[1]),
                       Expm(CorrectorF4(Am1, A0, built, dt, dtm1[1]),
                            Densities(fuel_ring_materials[r][n - 1])))]_vars

\* a ring whose first step was corrected with CE/LI and whose second step
\* was predicted and corrected with LE/QI, two different operators each time
C25_Witness ==
  /\ called.op = "correct_depletion"
  /\ raised = "none"
  /\ \E r \in Rings :
       /\ log[r] = <<"P", "C", "P", "C">>
       /\ \A i \in {2, 3} :
            /\ ResultOf(Composition(r, i)).kind = "exponential_product"
            /\ ResultOf(Composition(r, i)).N.kind = "exponential_product"
            /\ ResultOf(Composition(r, i)).F # ResultOf(Composition(r, i)).N.F
       /\ Len(ResultOf(Composition(r, 2)).F.terms) = 2
       /\ Len(ResultOf(Composition(r, 3)).F.terms) = 3

\* p = q on rationals
REq(p, q) == p[1] * q[2] = q[1] * p[2]

\* the blend F puts the weights cs on the matrices As, in this order
Weighs(F, cs, As) ==
  /\ Len(F.terms) = Len(cs)
  /\ \A j \in 1 .. Len(cs) : REq(F.terms[j].c, cs[j]) /\ F.terms[j].A = As[j]

\* the weights of the formulas, with d = dt and p = dtm1, the factor d
\* multiplied in
F1Weights(d, p) == <<Frac(-(d * d), 12 * p), Frac(d * (6 * p + d), 12 * p)>>

F2Weights(d, p) == <<Frac(-(5 * d * d), 12 * p), Frac(d * (6 * p + 5 * d), 12 * p)>>

F3Weights(d, p) ==
  <<Frac(-(d * d * d), 12 * p * (p + d)),
    Frac(d * (5 * p * p + 6 * p * d + d * d), 12 * p * (p + d)),
    Frac(d * p, 12 * (p + d))>>

F4Weights(d, p) ==
  <<Frac(-(d * d * d), 12 * p * (p + d)),
    Frac(d * (p * p + 2 * p * d + d * d), 12 * p * (p + d)),
    Frac(d * (5 * p + 4 * d), 12 * (p + d))>>

\* C26: for dt > 0 and dtm1 > 0 the weights put on Am1, A0 and Ap1 in F1 and
\* F2 (LE/QI predictor) and in F3 and F4 (LE/QI corrector) are the rational
\* coefficients of the formulas, the overall factor dt included.
C26_BlendWeights ==
  [][\A r \in Rings :
       LET d == called'.dt[1]
           p == called'.dtm1[1]
           Am1 == fuel_ring_prev_dep_mats[r]
           built == build_depletion_matrix(Last(fuel_ring_materials[r]),
                                           fuel_ring_flux_spectra[r])
           A0 == fuel_ring_current_dep_mats[r]
       IN  /\ (PredictorCompleted(r) /\ UsedLEQI(NewTip(r))) =>
                /\ Weighs(NewTip(r).ops[1], F2Weights(d, p), <<Am1, built>>)
                /\ Weighs(NewTip(r).ops[2], F1Weights(d, p), <<Am1, built>>)
           /\ (CorrectorCompleted(r) /\ UsedLEQI(NewTip(r))) =>
                /\ Weighs(NewTip(r).ops[1], F4Weights(d, p), <<Am1, A0, built>>)
                /\ Weighs(NewTip(r).ops[2], F3Weights(d, p), <<Am1, A0, built>>)]_vars

\* an LE/QI corrector with dt = 3 after a previous step of 2
C26_Witness ==
  /\ called = CallStep("correct_depletion", 3, <<2>>, AllPositive)
  /\ raised = "none"
  /\ \A r \in Rings :
       /\ log[r] = <<"P", "C", "P", "C">>
       /\ Len(Composition(r, 3).ops[2].terms) = 3
       /\ REq(Composition(r, 3).ops[2].terms[3].c, Frac(1, 10))

\* C27: the composition a completed predictor or corrector pass stores
\* holds exactly the nuclides of the operator's ordering whose resulting
\* density is strictly positive, each with that density; a nuclide whose
\* density came out zero or negative is absent from it.
C27_PositiveDensitiesOnly ==
  [][\A r \in Rings :
       (PredictorCompleted(r) \/ CorrectorCompleted(r)) =>
         /\ DOMAIN NewTip(r).densities =
              {nuclides[i] : i \in {j \in DOMAIN nuclides : called'.N[j] > 0}}
         /\ \A i \in DOMAIN nuclides :
              called'.N[i] > 0 => NewTip(r).densities[nuclides[i]] = called'.N[i]]_vars

\* a corrected composition that lost a nuclide of density zero and one of
\* negative density, after a first step that kept all three
C27_Witness ==
  /\ called.op = "correct_depletion"
  /\ raised = "none"
  /\ called.N = <<1, 0, -1>>
  /\ \A r \in Rings :
       /\ log[r] = <<"P", "C", "P", "C">>
       /\ DOMAIN Composition(r, 3).densities = {nuclides[1]}
       /\ DOMAIN Composition(r, 2).densities = {nuclides[1], nuclides[2], nuclides[3]}

FuelModeOps == {"set_isolated_dancoff_fuel_sources", "set_full_dancoff_fuel_sources"}

CladModeOps == {"set_isolated_dancoff_clad_sources", "set_full_dancoff_clad_sources"}

\* the geometry whose solver a setter writes to
Target(op) ==
  IF op \in {"set_isolated_dancoff_fuel_sources", "set_isolated_dancoff_clad_sources"}
  THEN "isolated" ELSE "full"

\* every index of list holds source value in the solver of geometry
AllGiven(geometry, list, value) ==
  \A i \in 1 .. Len(list) :
    /\ list[i] \in DOMAIN extern_src[geometry]
    /\ extern_src[geometry][list[i]] = value

\* the newest composition of every ring, mixed in equal volumes
NewestMixed ==
  [kind |-> "Material",
   mixed |-> [i \in 1 .. num_fuel_rings |->
                fuel_ring_materials[i - 1][Len(fuel_ring_materials[i - 1])]],
   fractions |-> [i \in 1 .. num_fuel_rings |-> <<1, num_fuel_rings>>]]

\* C28: after a fuel-mode setter every resolved fuel index holds source 0
\* and every gap, clad and moderator index the potential cross section of the
\* gap, the clad and the moderator; after a clad-mode setter every clad index
\* holds 0, every fuel index the potential cross section of the equal-volume
\* mix of the rings' newest compositions, gap and moderator as before.
C28_DancoffSources ==
  (called.op \in FuelModeOps \cup CladModeOps) =>
    LET inds == dancoff_fsr_inds[Target(called.op)]
    IN  /\ AllGiven(Target(called.op), inds.gap, potential_xs(gap))
        /\ AllGiven(Target(called.op), inds.mod, potential_xs(called.moderator))
        /\ IF called.op \in FuelModeOps
           THEN /\ AllGiven(Target(called.op), inds.fuel, 0)
                /\ AllGiven(Target(called.op), inds.clad, potential_xs(Clad))
           ELSE /\ AllGiven(Target(called.op), inds.fuel, potential_xs(NewestMixed))
                /\ AllGiven(Target(called.op), inds.clad, 0)

\* a pin with a gap and predicted compositions whose full-geometry solver
\* was given the sources of a clad calculation
C28_Witness ==
  /\ called.op = "set_full_dancoff_clad_sources"
  /\ gap # None
  /\ \A r \in Rings : Len(fuel_ring_materials[r]) = 2
  /\ dancoff_fsr_inds.full.fuel # <<>>
  /\ dancoff_fsr_inds.full.gap # <<>>
  /\ extern_src.full[dancoff_fsr_inds.full.clad[1]] = 0
  /\ extern_src.full[dancoff_fsr_inds.full.gap[1]] = potential_xs(GapMaterial)
  /\ extern_src.isolated # <<>>

\* the radius the clad starts at: the gap's when the pin has a gap, else the
\* fuel's
CladInnerRadius == IF gap # None THEN gap_radius[1] ELSE fuel_radius

\* C29: for every pin the constructor has accepted, clad_radius - b is
\* strictly positive, b being gap_radius when the pin has a gap and
\* fuel_radius otherwise; set_clad_xs_for_depletion_step never fails on the
\* division and the cross sections it stores were computed with the escape
\* cross section 1 / (2 (clad_radius - b)).
C29_CladEscapeDefined ==
  constructed =>
    /\ clad_radius - CladInnerRadius > 0
    /\ raised # "ZeroDivisionError"
    /\ clad_xs # None =>
         clad_xs.value.Ee[1] * 2 * (clad_radius - CladInnerRadius) = clad_xs.value.Ee[2]

\* a pin with a gap: the escape cross section comes
\* from the clad's thickness 1, not from the distance 2 to the fuel
C29_Witness ==
  /\ constructed
  /\ called.op = "set_clad_xs_for_depletion_step"
  /\ raised = "none"
  /\ gap # None
  /\ clad_radius - gap_radius[1] = 1
  /\ clad_radius - fuel_radius = 2
  /\ clad_xs.value.Ee = <<1, 2>>

\* C30 (as stated): get_fuel_material(t, r) returns the composition of ring
\* r at step t when 0 <= r < num_fuel_rings and 0 <= t < the length of ring
\* r's history, and raises IndexError for every other r or t.
C30_GetFuelMaterial ==
  called.op = "get_fuel_material" =>
    IF /\ 0 <= called.r /\ called.r < num_fuel_rings
       /\ 0 <= called.t /\ called.t < Len(fuel_ring_materials[called.r])
    THEN /\ raised = "none"
         /\ called.returned = fuel_ring_materials[called.r][called.t + 1]
    ELSE raised = "IndexError"

\* C31: in every reachable state all rings of a pin are in the same
\* depletion phase -- their composition histories have the same length and
\* their current matrices are all set or all None -- also after a
\* predict_depletion or correct_depletion that an error ended partway
\* through the ring loop.
C31_RingsInSamePhase ==
  \A r \in Rings : \A q \in Rings :
    /\ Len(fuel_ring_materials[r]) = Len(fuel_ring_materials[q])
    /\ (fuel_ring_current_dep_mats[r] = None) <=> (fuel_ring_current_dep_mats[q] = None)

\* C32: in every reachable state the number of fuel cross-section slots is
\* 0 or num_fuel_rings, also after a set_fuel_xs_for_depletion_step that
\* failed; so the call never ends in the "number of fuel cross sections
\* does not agree" error.
C32_SlotCountZeroOrN ==
  /\ SlotCountOk(Len(fuel_ring_xs))
  /\ ~(called.op = "set_fuel_xs_for_depletion_step" /\ raised = "RuntimeError")

\* the cell's extent from the pin centre along x and along y: half the
\* width along an axis the cell type does not split, the width along an
\* axis it splits
ExtentX(c) == IF c.pintype \in {"Full", "YN", "YP"} THEN Frac(c.dx, 2) ELSE Frac(c.dx, 1)

ExtentY(c) == IF c.pintype \in {"Full", "XN", "XP"} THEN Frac(c.dy, 2) ELSE Frac(c.dy, 1)

\* the radii the pin itself contributes: fuel rings, gap if any, clad
PinRadii(c) == Len(fuel_radii) + (IF gap_xs # None THEN 1 ELSE 0) + 1

\* C33: the radii list make_moc_cell hands to the geometry builder is
\* strictly increasing; the extra moderator annulus is there only with a
\* radius strictly greater than clad_radius, and that radius never exceeds
\* the cell's extent from the pin centre along either axis.
C33_RadiiWithinCell ==
  cell # None =>
    /\ \A i \in 1 .. Len(cell.radii) - 1 : Greater(cell.radii[i + 1], cell.radii[i])
    /\ Len(cell.radii) \in {PinRadii(cell), PinRadii(cell) + 1}
    /\ Len(cell.radii) = PinRadii(cell) + 1 =>
         /\ Greater(Last(cell.radii), Exact(clad_radius))
         /\ ~Greater(Last(cell.radii), Radius(ExtentX(cell)))
         /\ ~Greater(Last(cell.radii), Radius(ExtentY(cell)))

\* the sum of the weights a blend puts on its matrices
RECURSIVE SumWeights(_)
SumWeights(terms) ==
  IF terms = <<>> THEN Frac(0, 1)
  ELSE RAdd(Head(terms).c, SumWeights(Tail(terms)))

\* the blended operators a pass applied
Blended(comp) == {i \in DOMAIN comp.ops : comp.ops[i].kind = "Blend"}

\* C34: for dt > 0 and dtm1 > 0 the weights of every blended operator a
\* pass applies (F1, F2 of the LE/QI predictor, F1, F2 of the CE/LI
\* corrector, F3, F4 of the LE/QI corrector) sum to dt/2, so the two
\* operators of a pair together weigh dt.
C34_WeightsSumToHalfStep ==
  [][\A r \in Rings :
       (PredictorCompleted(r) \/ CorrectorCompleted(r)) =>
         \A comp \in {NewTip(r)} :
           /\ \A i \in Blended(comp) :
                REq(SumWeights(comp.ops[i].terms), Frac(called'.dt[1], 2))
           /\ Blended(comp) # {} =>
                /\ Blended(comp) = {1, 2}
                /\ REq(RAdd(SumWeights(comp.ops[1].terms),
                            SumWeights(comp.ops[2].terms)),
                       Frac(called'.dt[1], 1))]_vars

\* an LE/QI predictor with dt = 3 after a previous step of 2: F2 weighs
\* Am1 by -15/8 and A0 by 27/8
C34_Witness ==
  /\ called = CallStep("predict_depletion", 3, <<2>>, AllPositive)
  /\ raised = "none"
  /\ \A r \in Rings :
       /\ log[r] = <<"P", "C", "P">>
       /\ Len(Composition(r, 3).ops[1].terms) = 2
       /\ REq(Composition(r, 3).ops[1].terms[1].c, Frac(-15, 8))
       /\ REq(SumWeights(Composition(r, 3).ops[1].terms), Frac(3, 2))

\* a corrector pass has completed for ring r
Corrected(r) == \E i \in DOMAIN log[r] : log[r][i] = "C"

\* the last pass completed for ring r is a predictor pass
LastCompletedIsPredictor(r) == log[r] # <<>> /\ Last(log[r]) = "P"

====
